---- MODULE Spec2Model ----
(***************************************************************************)
(* A model of the corelib crate of aurelius: the fee-prioritised memory    *)
(* pool (corelib/src/mempool.rs), the transaction with its re-derived hash *)
(* and signature (corelib/src/transaction.rs), the UTXO with its script    *)
(* machine (corelib/src/utxo.rs), the merkle tree (corelib/src/merkle.rs), *)
(* the mined block (corelib/src/block.rs), whole and pass by pass of its   *)
(* mining loop, and the requests and responses of the wire protocol        *)
(* (corelib/src/net/protocol.rs, core/src/net/message.rs).  The selection  *)
(* of transactions for a block is modelled whole and pass by pass of its   *)
(* loop.  Each component has its own specification; the variables of the   *)
(* others stay as they start.                                              *)
(*                                                                         *)
(* A shift by the width of the integer or more panics in a build with      *)
(* overflow checks and shifts by the amount modulo the width in one        *)
(* without, and an addition beyond the width panics in the first and wraps *)
(* in the second; overflow_checks is the build the program runs in.  The   *)
(* 64-bit sizes and values are kept in a width of 4 bits.                  *)
(*                                                                         *)
(* The system clock is taken to be at or after the Unix epoch, so          *)
(* duration_since(UNIX_EPOCH) does not fail; each clock read is an input.  *)
(* The values of UTXOs are small in TxnSpec, where the u64 sums of verify   *)
(* do not overflow, and of any size in FundsSpec.                          *)
(***************************************************************************)
EXTENDS Bags, FiniteSets, Integers, Sequences, TLC

(***************************************************************************)
(* Bounds of the model.                                                    *)
(***************************************************************************)
\* number of transactions offered to the mempool
NumTxns == 3
\* largest fee passed to add_transaction
MaxFee == 3
\* largest wall-clock reading (milliseconds)
MaxTime == 1
\* largest max_size given to MemPool::new
MaxPoolSize == 2
\* largest max_block_size given to get_transactions_for_block
MaxBlockSize == 4

\* number of signing keys
NumKeys == 2
\* largest value of a UTXO, of a list of UTXOs, and of the inputs and of the
\* outputs of a transaction
MaxValue == 2
\* largest number of tokens added to a valid unlocking script
MaxExtraTokens == 1

\* largest number of transactions of a block
MaxBlockTxns == 2
\* largest difficulty of a block
MaxDifficulty == 3
\* largest nonce tried by the mining loop
MaxNonce == 15
\* largest number of hashes given to a merkle tree
MaxLeaves == 4
\* largest length of a short string of a message, and largest number of
\* strings of a message
MaxStrLen == 2

VARIABLES
    max_size,        \* MemPool.max_size
    transactions,    \* MemPool.transactions: hash_id -> Transaction
    priority_queue,  \* MemPool.priority_queue: a bag of PriorityEntry
    last,            \* the last mempool call: arguments, pool before, result
    selector,        \* a call of get_transactions_for_block in progress
    transaction,     \* a Transaction under construction
    txn_last,        \* the last call on it: its list, transaction before, result
    signer,          \* the signing key given to the last call that signed it
    utxo,            \* a UTXO
    utxo_last,       \* the last call on it: arguments, UTXO before, result
    block,           \* a Block
    block_last,      \* the last call on it: block before, result
    overflow_checks, \* whether the build panics on arithmetic overflow
    miner,           \* a call of mine_block in progress: its place in the loop
    stop_flag,       \* the caller's stop flag and the passes made since it was set
    tree,            \* a merkle::Tree
    merkle_last,     \* the last call on it and the hashes given to it
    packet,          \* a Request or a Response
    buffer,          \* the bytes last written by to_bytes
    net_last         \* the last call on them: packet before, result

mempool_vars == <<max_size, transactions, priority_queue, last, selector>>

txn_vars == <<transaction, txn_last, signer>>

utxo_vars == <<utxo, utxo_last>>

block_vars == <<block, block_last, overflow_checks, miner, stop_flag>>

merkle_vars == <<tree, merkle_last>>

net_vars == <<packet, buffer, net_last>>

vars == <<max_size, transactions, priority_queue, last, selector,
          transaction, txn_last, signer, utxo, utxo_last, block, block_last, overflow_checks, miner,
          stop_flag,
          tree, merkle_last, packet, buffer, net_last>>

(***************************************************************************)
(* Transactions as the mempool sees them: the hash_id key and the          *)
(* serialized size.  The transactions offered have sizes 1, 2, 3, ...      *)
(***************************************************************************)
PoolTxns == {[hash_id |-> h, nbytes |-> h] : h \in 1..NumTxns}

\* Transaction::size(), the serialized size of the transaction in bytes
TxnSize(txn) == txn.nbytes

EmptyMap == [h \in {} |-> 0]

(***************************************************************************)
(* impl Ord for PriorityEntry                                              *)
(***************************************************************************)
\* u64::cmp / u128::cmp
CmpInt(x, y) == IF x < y THEN "Less" ELSE IF x > y THEN "Greater" ELSE "Equal"

\* Ordering::then_with
ThenWith(first, second) == IF first = "Equal" THEN second ELSE first

\* the comparison with the fees in the natural order
EntryCmp_FeeAscending(self, other) ==
    ThenWith(CmpInt(self.fee_per_byte, other.fee_per_byte),
             CmpInt(self.timestamp, other.timestamp))

\* PriorityEntry::cmp: the fee comparison is reversed, the timestamps are not
EntryCmp(self, other) ==
    ThenWith(CmpInt(other.fee_per_byte, self.fee_per_byte),
             CmpInt(self.timestamp, other.timestamp))

\* BinaryHeap::peek: a greatest entry of the max-heap.  Which one of several
\* entries that compare Equal sits at the root depends on the heap's layout.
Peek(queue) ==
    {e \in BagToSet(queue) :
        \A o \in BagToSet(queue) : EntryCmp(o, e) # "Greater"}

\* BinaryHeap::pop of the entry at the root
PopEntry(queue, e) == queue (-) SetToBag({e})

\* BinaryHeap::push
PushEntry(queue, e) == queue (+) SetToBag({e})

(***************************************************************************)
(* MemPool                                                                 *)
(***************************************************************************)
Pool(txns, queue) == [transactions |-> txns, priority_queue |-> queue]

\* remove_transaction without the rebuild of the queue
RemoveTransaction_MapOnly(pool, tx_hash) ==
    Pool([h \in DOMAIN pool.transactions \ {tx_hash} |-> pool.transactions[h]],
         pool.priority_queue)

\* MemPool::remove_transaction: the queue is rebuilt without the entries of
\* tx_hash, then the key is removed from the map
RemoveTransaction(pool, tx_hash) ==
    Pool([h \in DOMAIN pool.transactions \ {tx_hash} |-> pool.transactions[h]],
         [e \in {x \in DOMAIN pool.priority_queue : x.txn_hash # tx_hash}
             |-> pool.priority_queue[e]])

\* HashMap::insert followed by BinaryHeap::push (mempool.rs 125-126)
InsertTransaction(pool, txn, entry) ==
    Pool([h \in DOMAIN pool.transactions \cup {txn.hash_id} |->
             IF h = txn.hash_id THEN txn ELSE pool.transactions[h]],
         PushEntry(pool.priority_queue, entry))

\* the duplicate check skipped
TxnExists_Never(pool, txn_hash) == FALSE

\* self.transactions.contains_key(&txn_hash)
TxnExists(pool, txn_hash) == txn_hash \in DOMAIN pool.transactions

\* self.transactions.len() >= self.max_size
PoolIsFull(pool, max) == Cardinality(DOMAIN pool.transactions) >= max

\* the fee test accepting an equal fee
FeeBeats_OrEqual(lowest_priority, entry) ==
    lowest_priority.fee_per_byte <= entry.fee_per_byte

\* lowest_priority.fee_per_byte < entry.fee_per_byte
FeeBeats(lowest_priority, entry) ==
    lowest_priority.fee_per_byte < entry.fee_per_byte

\* the PriorityEntry built by add_transaction
NewEntry(txn, fee, now) ==
    [fee_per_byte |-> fee \div TxnSize(txn),
     timestamp    |-> now,
     size         |-> TxnSize(txn),
     txn_hash     |-> txn.hash_id]

\* MemPool::add_transaction: the possible outcomes, each the pool after the
\* call, the result and the entries evicted
AddTransactionOutcomes(pool, max, txn, fee, now) ==
    LET entry == NewEntry(txn, fee, now)
        unchanged(err) == [pool |-> pool, result |-> err, evicted |-> <<>>]
    IN
    IF TxnExists(pool, txn.hash_id)
    THEN {unchanged("TxnExistInMempool")}
    ELSE IF PoolIsFull(pool, max) /\ pool.priority_queue # EmptyBag
    THEN {IF FeeBeats(lowest_priority, entry)
          THEN [pool |-> InsertTransaction(
                             RemoveTransaction(
                                 Pool(pool.transactions,
                                      PopEntry(pool.priority_queue, lowest_priority)),
                                 lowest_priority.txn_hash),
                             txn, entry),
                result |-> "Ok",
                evicted |-> <<lowest_priority>>]
          ELSE unchanged("TxnLowFee")
          : lowest_priority \in Peek(pool.priority_queue)}
    ELSE {[pool |-> InsertTransaction(pool, txn, entry),
           result |-> "Ok", evicted |-> <<>>]}

(***************************************************************************)
(* get_transactions_for_block: the while-let loop.  The entry at the root  *)
(* stays at the root until it is popped.                                   *)
(***************************************************************************)
\* the size test accepting a total equal to max_block_size
FitsInBlock_OrEqual(block_size, entry, max_block_size) ==
    block_size + entry.size <= max_block_size

\* block_size + entry.size < max_block_size as u64
FitsInBlock(block_size, entry, max_block_size) ==
    block_size + entry.size < max_block_size

RECURSIVE SelectLoop(_, _, _, _), SelectLoopAt(_, _, _, _, _)

\* one evaluation of the loop condition: peek
SelectLoop(pool, block_txns, block_size, max_block_size) ==
    IF pool.priority_queue = EmptyBag
    THEN {[pool |-> pool, block_txns |-> block_txns]}
    ELSE UNION {SelectLoopAt(pool, entry, block_txns, block_size, max_block_size)
                : entry \in Peek(pool.priority_queue)}

\* the loop body with entry at the root of the heap
SelectLoopAt(pool, entry, block_txns, block_size, max_block_size) ==
    IF FitsInBlock(block_size, entry, max_block_size)
    THEN IF entry.txn_hash \in DOMAIN pool.transactions
         THEN SelectLoopAt(pool, entry,
                           Append(block_txns, pool.transactions[entry.txn_hash]),
                           block_size + entry.size, max_block_size)
         ELSE SelectLoop(Pool(pool.transactions,
                              PopEntry(pool.priority_queue, entry)),
                         block_txns, block_size, max_block_size)
    ELSE {[pool |-> pool, block_txns |-> block_txns]}

\* the selected transactions left in the pool
RemoveAll_Skipped(pool, block_txns) == pool

RECURSIVE RemoveAll(_, _)
\* block_txns.iter().for_each(|t| self.remove_transaction(&t.hash_id))
RemoveAll(pool, block_txns) ==
    IF block_txns = <<>> THEN pool
    ELSE RemoveAll(RemoveTransaction(pool, Head(block_txns).hash_id),
                   Tail(block_txns))

\* MemPool::get_transactions_for_block: the possible outcomes
GetTransactionsForBlockOutcomes(pool, max_block_size) ==
    {[pool |-> RemoveAll(o.pool, o.block_txns), block_txns |-> o.block_txns]
     : o \in SelectLoop(pool, <<>>, 0, max_block_size)}

(***************************************************************************)
(* get_transactions_for_block pass by pass, with block_size in its width:  *)
(* the sizes are u64 in the program and numbers below SizeModulus in the   *)
(* model.  An addition that overflows panics in a build with overflow      *)
(* checks and wraps in a build without them.  self is the call: its place  *)
(* pc, block_txns, block_size, max_block_size and the entry at the root of *)
(* the heap, once peeked.                                                  *)
(***************************************************************************)
\* 2^64, the number of values of a u64 and of a usize
SizeModulus == 16

\* usize::MAX
UsizeMax == SizeModulus - 1

\* u64 addition in a build without overflow checks
WrappingAdd(x, y) == (x + y) % SizeModulus

\* the pass with entry at the root of the heap (mempool.rs 146-155); checks
\* is whether the build has overflow checks.  block_txns keeps at most
\* SizeModulus transactions: more are pushed only after block_size wrapped.
SelectPassAt(pool, self, entry, checks) ==
    IF checks /\ self.block_size + entry.size >= SizeModulus
    THEN [pool |-> pool, selector |-> [self EXCEPT !.pc = "panic"]]
    ELSE IF WrappingAdd(self.block_size, entry.size) < self.max_block_size
    THEN IF entry.txn_hash \in DOMAIN pool.transactions
         THEN [pool |-> pool,
               selector |->
                   [self EXCEPT
                       !.block_txns =
                           IF Len(@) < SizeModulus
                           THEN Append(@, pool.transactions[entry.txn_hash])
                           ELSE @,
                       !.block_size = WrappingAdd(@, entry.size),
                       !.root = <<entry>>]]
         ELSE [pool |-> Pool(pool.transactions,
                             PopEntry(pool.priority_queue, entry)),
               selector |-> [self EXCEPT !.root = <<>>]]
    ELSE [pool |-> RemoveAll(pool, self.block_txns),
          selector |-> [self EXCEPT !.pc = "done"]]

\* one evaluation of the loop condition and the pass or the end that
\* follows it (mempool.rs 145-160): the possible outcomes.  The entry at
\* the root of the heap, self.root, stays there until it is popped.
SelectPass(pool, self, checks) ==
    IF pool.priority_queue = EmptyBag
    THEN {[pool |-> RemoveAll(pool, self.block_txns),
           selector |-> [self EXCEPT !.pc = "done"]]}
    ELSE {SelectPassAt(pool, self, entry, checks)
          : entry \in IF self.root # <<>> THEN {self.root[1]}
                      ELSE Peek(pool.priority_queue)}

(***************************************************************************)
(* Bytes, digests, keys and signatures.  A byte string is a sequence of    *)
(* numbers in 0..255.  blake3::hash is modelled by a two-byte checksum of  *)
(* the input that depends on every byte, on the order and on the length;   *)
(* an Ed25519 signature by the pair of the signer's verifying key and the  *)
(* signed message.                                                         *)
(***************************************************************************)
RECURSIVE LeBytes(_, _)
\* u32::to_le_bytes, u64::to_le_bytes: width bytes, least significant first
LeBytes(n, width) ==
    IF width = 0 THEN <<>>
    ELSE <<n % 256>> \o LeBytes(n \div 256, width - 1)

\* the cast `as u32` of a millisecond count: the low 32 bits
AsU32(n) == ((n \div 65536) % 65536) * 65536 + (n % 65536)

RECURSIVE ByteSum(_, _, _)
\* the sum of bytes[lo..hi], and their sum with each byte weighted by its
\* distance from the end of the input
ByteSum(bytes, lo, hi) ==
    IF lo > hi THEN <<0, 0>>
    ELSE IF lo = hi THEN <<bytes[lo], (Len(bytes) - lo + 1) * bytes[lo]>>
    ELSE CHOOSE sums \in
            UNION {UNION {{<<left[1] + right[1], left[2] + right[2]>>
                            : right \in {ByteSum(bytes, mid + 1, hi)}}
                         : left \in {ByteSum(bytes, lo, mid)}}
                  : mid \in {(lo + hi) \div 2}} : TRUE

\* blake3::hash(bytes).as_bytes(): the two running sums of a Fletcher
\* checksum modulo 251, the second-order sum first
Blake3(bytes) ==
    CHOOSE digest \in
        UNION {{<<(Len(input) + sums[2]) % 251, (1 + sums[1]) % 251>>
                 : sums \in {ByteSum(input, 1, Len(input))}}
              : input \in {bytes}} : TRUE

SigningKeys == 1..NumKeys

\* SigningKey::verifying_key().to_bytes()
VerifyingKey(signing_key) == <<100 + signing_key>>

\* SigningKey::sign(message).to_bytes()
Sign(signing_key, message) == VerifyingKey(signing_key) \o message

\* VerifyingKey::verify_strict(message, signature)
VerifyStrict(public_key, message, signature) == signature = public_key \o message

\* the lowercase hexadecimal digit of a nibble, as its character code
HexDigit(n) == IF n < 10 THEN 48 + n ELSE 87 + n

RECURSIVE HexEncode(_)
\* Hash::to_string, hex::encode
HexEncode(bytes) ==
    IF bytes = <<>> THEN <<>>
    ELSE <<HexDigit(Head(bytes) \div 16), HexDigit(Head(bytes) % 16)>>
             \o HexEncode(Tail(bytes))

\* the characters of "OP_CHECKSIG"
OpCheckSig == <<79, 80, 95, 67, 72, 69, 67, 75, 83, 73, 71>>

\* the character ' '
Space == <<32>>

(***************************************************************************)
(* UTXO                                                                    *)
(***************************************************************************)
Err(e) == [ok |-> FALSE, err |-> e]

Ok(v) == [ok |-> TRUE, value |-> v]

Pending(value, index) == [kind |-> "Pending", value |-> value, index |-> index]

\* UTXO::new without the test of the value
UtxoNew_AcceptsZero(value, index) == Ok(Pending(value, index))

\* UTXO::new
UtxoNew(value, index) ==
    IF value = 0 THEN Err("InvalidUTXOValue") ELSE Ok(Pending(value, index))

\* confirm_utxo confirming a Confirmed UTXO again
ConfirmUtxo_Again(self, owner, txn_hash, block_height, coinbase, now) ==
    Ok([kind          |-> "Confirmed",
        id            |-> Blake3(txn_hash \o LeBytes(self.index, 4)),
        script_pubkey |-> HexEncode(Blake3(owner)) \o Space \o OpCheckSig,
        value         |-> self.value,
        txn_hash      |-> txn_hash,
        index         |-> self.index,
        created_at    |-> AsU32(now),
        block_height  |-> block_height,
        is_coinbase   |-> coinbase])

\* the id taken from the hash of the creating transaction alone
ConfirmUtxo_IdWithoutIndex(self, owner, txn_hash, block_height, coinbase, now) ==
    IF self.kind = "Pending"
    THEN Ok([kind          |-> "Confirmed",
             id            |-> Blake3(txn_hash),
             script_pubkey |-> HexEncode(Blake3(owner)) \o Space \o OpCheckSig,
             value         |-> self.value,
             txn_hash      |-> txn_hash,
             index         |-> self.index,
             created_at    |-> AsU32(now),
             block_height  |-> block_height,
             is_coinbase   |-> coinbase])
    ELSE Err("ConfirmedUTXO")

\* UTXO::confirm_utxo; now is the clock reading
ConfirmUtxo(self, owner, txn_hash, block_height, coinbase, now) ==
    IF self.kind = "Pending"
    THEN Ok([kind          |-> "Confirmed",
             id            |-> Blake3(txn_hash \o LeBytes(self.index, 4)),
             script_pubkey |-> HexEncode(Blake3(owner)) \o Space \o OpCheckSig,
             value         |-> self.value,
             txn_hash      |-> txn_hash,
             index         |-> self.index,
             created_at    |-> AsU32(now),
             block_height  |-> block_height,
             is_coinbase   |-> coinbase])
    ELSE Err("ConfirmedUTXO")

\* UTXO::to_bytes
ToBytes(self) ==
    IF self.kind = "Confirmed"
    THEN self.id
             \o self.script_pubkey
             \o LeBytes(self.value, 8)
             \o LeBytes(self.index, 4)
             \o LeBytes(self.created_at, 4)
             \o LeBytes(self.block_height, 4)
    ELSE LeBytes(self.value, 8) \o LeBytes(self.index, 4)

(***************************************************************************)
(* The script machine of UTXO::unlock.  A string is the sequence of its    *)
(* character codes.  A verifying key has PublicKeyLength bytes and a       *)
(* signature SignatureLength bytes: the key followed by the signed digest. *)
(***************************************************************************)
\* the length convert_u8_to_u832 accepts, in the model's bytes
PublicKeyLength == 1

\* the length convert_u8_to_u864 accepts, in the model's bytes
SignatureLength == 3

\* char::is_whitespace, on the ASCII characters
IsWhitespace(c) == c \in 9..13 \/ c = 32

RECURSIVE Split(_, _, _, _)
\* the scan of str from position i, with the token being read and those read
Split(str, i, token, tokens) ==
    LET closed == IF token = <<>> THEN tokens ELSE Append(tokens, token) IN
    IF i > Len(str) THEN closed
    ELSE IF IsWhitespace(str[i]) THEN Split(str, i + 1, <<>>, closed)
    ELSE Split(str, i + 1, Append(token, str[i]), tokens)

\* str::split_whitespace: the non-empty runs of characters that are not
\* whitespace, in order
SplitWhitespace(str) == Split(str, 1, <<>>, <<>>)

\* the value of a hexadecimal digit of either case, -1 for another character
HexVal(c) ==
    IF c \in 48..57 THEN c - 48
    ELSE IF c \in 97..102 THEN c - 87
    ELSE IF c \in 65..70 THEN c - 55
    ELSE -1

\* hex::decode
HexDecode(str) ==
    IF Len(str) % 2 = 1 \/ \E i \in 1..Len(str) : HexVal(str[i]) < 0
    THEN Err("HexcodeError")
    ELSE Ok([i \in 1..(Len(str) \div 2) |->
                16 * HexVal(str[2 * i - 1]) + HexVal(str[2 * i])])

\* VerifyingKey::from_bytes succeeds on the encodings of curve points
IsPoint(bytes) == bytes[1] > 100

\* verify_signature (utxo.rs 164-170)
VerifySignature(public_key, signature, txn_hash) ==
    IF Len(public_key) # PublicKeyLength
    THEN Err("InvalidU8Length")
    ELSE IF ~IsPoint(public_key)
    THEN Err("Signature")
    ELSE IF Len(signature) # SignatureLength
    THEN Err("InvalidU8Length")
    ELSE IF ~VerifyStrict(public_key, txn_hash, signature)
    THEN Err("Signature")
    ELSE Ok(<<>>)

\* the characters of "true"
TrueToken == <<116, 114, 117, 101>>

\* OP_CHECKSIG with any signature of the right length accepted
CheckSig_AnySignature(stack) ==
    IF Len(stack) < 3 THEN Err("InvalidUnlockingScript")
    ELSE
    LET n               == Len(stack)
        public_key_hash == stack[n]
        public_key      == HexDecode(stack[n - 1])
        signature       == HexDecode(stack[n - 2])
    IN
    IF ~public_key.ok THEN public_key
    ELSE IF ~signature.ok THEN signature
    ELSE IF public_key_hash # HexEncode(Blake3(public_key.value))
    THEN Err("InvalidUnlockingScript")
    ELSE IF Len(signature.value) # SignatureLength
    THEN Err("InvalidUnlockingScript")
    ELSE Ok(Append(SubSeq(stack, 1, n - 3), TrueToken))

\* stack.pop().ok_or_else(|| Error::EmptyStack): the item popped and the
\* stack left, or the error
Pop(stack) ==
    IF stack = <<>> THEN Err("EmptyStack")
    ELSE Ok([item |-> stack[Len(stack)],
             rest |-> SubSeq(stack, 1, Len(stack) - 1)])

\* hex::decode(stack.pop().ok_or_else(|| Error::EmptyStack)?)?: the bytes
\* of the item popped and the stack left, or the error
PopHex(stack) ==
    IF stack = <<>> THEN Err("EmptyStack")
    ELSE IF ~HexDecode(stack[Len(stack)]).ok THEN HexDecode(stack[Len(stack)])
    ELSE Ok([item |-> HexDecode(stack[Len(stack)]).value,
             rest |-> SubSeq(stack, 1, Len(stack) - 1)])

\* the three items of OP_CHECKSIG popped in the order of utxo.rs 127-131:
\* the items and the stack left, or the first error
PopThree(stack) ==
    LET first  == Pop(stack)
        second == IF first.ok THEN PopHex(first.value.rest) ELSE first
        third  == IF second.ok THEN PopHex(second.value.rest) ELSE second
    IN
    IF ~third.ok THEN third
    ELSE Ok([public_key_hash |-> first.value.item,
             public_key      |-> second.value.item,
             signature       |-> third.value.item,
             rest            |-> third.value.rest])

\* the checks of OP_CHECKSIG after its pops (utxo.rs 132-147): the error of
\* a pop, the stack with "true" pushed, or InvalidUnlockingScript
CheckPopped(popped) ==
    IF ~popped.ok THEN popped
    ELSE
    LET new_hash == Blake3(popped.value.public_key) IN
    IF popped.value.public_key_hash # HexEncode(new_hash)
    THEN Err("InvalidUnlockingScript")
    ELSE IF ~VerifySignature(popped.value.public_key, popped.value.signature,
                             new_hash).ok
    THEN Err("InvalidUnlockingScript")
    ELSE Ok(Append(popped.value.rest, TrueToken))

\* the OP_CHECKSIG arm without the test of the length of the stack
CheckSig_NoLengthTest(stack) == CheckPopped(PopThree(stack))

\* the OP_CHECKSIG arm (utxo.rs 122-148): the stack after it, or the error
CheckSig(stack) ==
    IF Len(stack) < 3 THEN Err("InvalidUnlockingScript")
    ELSE CheckPopped(PopThree(stack))

RECURSIVE RunScript(_, _)
\* for token in script_pubkey.split_whitespace(): the stack at the end, or
\* the error that ended the loop
RunScript(tokens, stack) ==
    IF tokens = <<>> THEN Ok(stack)
    ELSE IF Head(tokens) = OpCheckSig
    THEN LET checked == CheckSig(stack) IN
         IF checked.ok THEN RunScript(Tail(tokens), checked.value) ELSE checked
    ELSE RunScript(Tail(tokens), Append(stack, Head(tokens)))

\* UTXO::unlock: "Ok" or the name of the error
Unlock(self, unlocking_script) ==
    IF self.kind = "Pending" THEN "PendingUTXO"
    ELSE
    LET run == RunScript(SplitWhitespace(self.script_pubkey),
                         SplitWhitespace(unlocking_script))
    IN
    IF ~run.ok THEN run.err
    ELSE IF Len(run.value) = 1
    THEN LET top == Pop(run.value) IN
         IF ~top.ok THEN top.err
         ELSE IF top.value.item = TrueToken THEN "Ok"
         ELSE "InvalidUnlockingScript"
    ELSE "InvalidUnlockingScript"

(***************************************************************************)
(* Transaction                                                             *)
(***************************************************************************)
\* Option<Vec<UTXO>>
None == [some |-> FALSE, vec |-> <<>>]

Some(vec) == [some |-> TRUE, vec |-> vec]

RECURSIVE ConcatBytes(_)
\* for utxo in utxos { serialized.extend(utxo.to_bytes()) }
ConcatBytes(utxos) ==
    IF utxos = <<>> THEN <<>>
    ELSE ToBytes(Head(utxos)) \o ConcatBytes(Tail(utxos))

\* the bytes hashed by calculate_hash
Serialized(self) ==
    self.sender
        \o self.receiver
        \o LeBytes(self.timestamp, 4)
        \o (IF self.inputs.some THEN ConcatBytes(self.inputs.vec) ELSE <<>>)
        \o (IF self.outputs.some THEN ConcatBytes(self.outputs.vec) ELSE <<>>)

\* calculate_hash signing the hash_id it found, before the new one is stored
CalculateHash_SignsOldHash(self, signing_key) ==
    [self EXCEPT !.hash_id = Blake3(Serialized(self)),
                 !.signature = Sign(signing_key, self.hash_id)]

\* calculate_hash with the outputs left out of the hashed bytes
CalculateHash_WithoutOutputs(self, signing_key) ==
    LET hash_id == Blake3(Serialized([self EXCEPT !.outputs = None])) IN
    [self EXCEPT !.hash_id = hash_id,
                 !.signature = Sign(signing_key, hash_id)]

\* Transaction::calculate_hash
CalculateHash(self, signing_key) ==
    LET hash_id == Blake3(Serialized(self)) IN
    [self EXCEPT !.hash_id = hash_id,
                 !.signature = Sign(signing_key, hash_id)]

\* Transaction::new; now is the clock reading in milliseconds
TransactionNew(signing_key, receiver, now) ==
    CalculateHash([hash_id   |-> <<0, 0>>,
                   sender    |-> VerifyingKey(signing_key),
                   receiver  |-> receiver,
                   timestamp |-> AsU32(now),
                   signature |-> <<0, 0, 0>>,
                   inputs    |-> None,
                   outputs   |-> None],
                  signing_key)

\* the test looking at the first element only
AnyOfKind_FirstOnly(utxos, kind) == utxos # <<>> /\ utxos[1].kind = kind

\* new_inputs.iter().any(|u| matches!(u, UTXO::Pending { .. }))
AnyOfKind(utxos, kind) == \E i \in 1..Len(utxos) : utxos[i].kind = kind

\* inputs.extend_from_slice after the None case is replaced by an empty Vec
Extend(opt, new_utxos) == Some(opt.vec \o new_utxos)

\* add_inputs with the list appended before it is examined
AddInputs_AppendsFirst(self, new_inputs, signing_key) ==
    LET extended == [self EXCEPT !.inputs = Extend(self.inputs, new_inputs)] IN
    IF AnyOfKind(new_inputs, "Pending")
    THEN [result |-> "PendingUTXO", txn |-> extended]
    ELSE IF new_inputs = <<>>
    THEN [result |-> "InsufficientFunds", txn |-> extended]
    ELSE [result |-> "Ok", txn |-> CalculateHash(extended, signing_key)]

\* Transaction::add_inputs: the result and the transaction after the call
AddInputs(self, new_inputs, signing_key) ==
    IF AnyOfKind(new_inputs, "Pending")
    THEN [result |-> "PendingUTXO", txn |-> self]
    ELSE IF new_inputs = <<>>
    THEN [result |-> "InsufficientFunds", txn |-> self]
    ELSE [result |-> "Ok",
          txn |-> CalculateHash([self EXCEPT !.inputs = Extend(self.inputs, new_inputs)],
                                signing_key)]

\* Transaction::add_outputs: the result and the transaction after the call
AddOutputs(self, new_outputs, signing_key) ==
    IF AnyOfKind(new_outputs, "Confirmed")
    THEN [result |-> "ConfirmedUTXO", txn |-> self]
    ELSE IF new_outputs = <<>>
    THEN [result |-> "InsufficientFunds", txn |-> self]
    ELSE [result |-> "Ok",
          txn |-> CalculateHash([self EXCEPT !.outputs = Extend(self.outputs, new_outputs)],
                                signing_key)]

RECURSIVE SumValues(_)
\* the values of the UTXOs summed, as a number
SumValues(utxos) ==
    IF utxos = <<>> THEN 0 ELSE Head(utxos).value + SumValues(Tail(utxos))

RECURSIVE IterSum(_, _, _)
\* .iter().sum() of the values in u64, from the total so far: each `+`
\* panics on overflow in a build with overflow checks and wraps in one
\* without
IterSum(utxos, total, checks) ==
    IF utxos = <<>> THEN Ok(total)
    ELSE IF checks /\ total + Head(utxos).value >= SizeModulus THEN Err("panic")
    ELSE IterSum(Tail(utxos), WrappingAdd(total, Head(utxos).value), checks)

\* the funds test rejecting outputs equal to the inputs
ExceedsFunds_OrEqual(input, output) == output >= input

\* output > input
ExceedsFunds(input, output) == output > input

RECURSIVE UnlockAll(_, _)
\* for utxo in inputs.iter() { utxo.unlock(unlocking_script)?; }
UnlockAll(inputs, unlocking_script) ==
    IF inputs = <<>> THEN "Ok"
    ELSE LET unlocked == Unlock(Head(inputs), unlocking_script) IN
         IF unlocked = "Ok" THEN UnlockAll(Tail(inputs), unlocking_script)
         ELSE unlocked

\* the result of verify_strict ignored
SenderSigned_Unchecked(self) == TRUE

\* pub_key.verify_strict(&self.hash_id, &signature)
SenderSigned(self) == VerifyStrict(self.sender, self.hash_id, self.signature)

\* verify with the inputs unlocked before the funds are compared
Verify_UnlocksFirst(self, unlocking_script, checks) ==
    IF ~IsPoint(self.sender) THEN Err("Signature")
    ELSE IF ~self.inputs.some THEN Err("InsufficientFunds")
    ELSE IF ~self.outputs.some THEN Err("InsufficientFunds")
    ELSE IF AnyOfKind(self.inputs.vec, "Pending") THEN Err("PendingUTXO")
    ELSE IF AnyOfKind(self.outputs.vec, "Confirmed") THEN Err("ConfirmedUTXO")
    ELSE
    LET input_sum == IterSum(self.inputs.vec, 0, checks) IN
    IF ~input_sum.ok THEN input_sum
    ELSE
    LET output_sum == IterSum(self.outputs.vec, 0, checks) IN
    IF ~output_sum.ok THEN output_sum
    ELSE
    LET input    == input_sum.value
        output   == output_sum.value
        unlocked == UnlockAll(self.inputs.vec, unlocking_script)
    IN
    IF unlocked # "Ok" THEN Err(unlocked)
    ELSE IF ExceedsFunds(input, output) THEN Err("InsufficientFunds")
    ELSE IF ~SenderSigned(self) THEN Err("UnAuthorized")
    ELSE Ok(<<input, output, input - output>>)

\* Transaction::verify in the build given: Ok((input, output, fee)), the
\* error, or the panic of a sum
Verify(self, unlocking_script, checks) ==
    IF ~IsPoint(self.sender) THEN Err("Signature")
    ELSE IF ~self.inputs.some THEN Err("InsufficientFunds")
    ELSE IF ~self.outputs.some THEN Err("InsufficientFunds")
    ELSE IF AnyOfKind(self.inputs.vec, "Pending") THEN Err("PendingUTXO")
    ELSE IF AnyOfKind(self.outputs.vec, "Confirmed") THEN Err("ConfirmedUTXO")
    ELSE
    LET input_sum == IterSum(self.inputs.vec, 0, checks) IN
    IF ~input_sum.ok THEN input_sum
    ELSE
    LET output_sum == IterSum(self.outputs.vec, 0, checks) IN
    IF ~output_sum.ok THEN output_sum
    ELSE
    LET input    == input_sum.value
        output   == output_sum.value
    IN
    IF ExceedsFunds(input, output) THEN Err("InsufficientFunds")
    ELSE
    LET unlocked == UnlockAll(self.inputs.vec, unlocking_script) IN
    IF unlocked # "Ok" THEN Err(unlocked)
    ELSE IF ~SenderSigned(self) THEN Err("UnAuthorized")
    ELSE Ok(<<input, output, input - output>>)

(***************************************************************************)
(* merkle::Tree.  An Option<Box<Node>> is the empty sequence or the        *)
(* sequence of the one node.                                               *)
(***************************************************************************)
\* Node::with_hash
NodeWithHash(hash) == [hash |-> hash, left |-> <<>>, right |-> <<>>]

\* Node::from_children
FromChildren(left, right) ==
    [hash  |-> Blake3(left.hash \o right.hash),
     left  |-> <<left>>,
     right |-> <<right>>]

\* Tree::new
TreeNew == [root |-> <<>>]

RECURSIVE Build_SplitsHigh(_)
\* the split taken at the half rounded up
Build_SplitsHigh(nodes) ==
    IF nodes = <<>> THEN <<>>
    ELSE IF Len(nodes) = 1 THEN <<nodes[1]>>
    ELSE IF Len(nodes) = 2 THEN <<FromChildren(nodes[1], nodes[2])>>
    ELSE <<FromChildren(
             Build_SplitsHigh(SubSeq(nodes, 1, (Len(nodes) + 1) \div 2))[1],
             Build_SplitsHigh(SubSeq(nodes, (Len(nodes) + 1) \div 2 + 1,
                                     Len(nodes)))[1])>>

RECURSIVE Build(_)
\* Tree::build: None for no node, the node itself for one, else the parent
\* of the trees of the two halves of nodes.split_at(nodes.len() / 2)
Build(nodes) ==
    IF nodes = <<>> THEN <<>>
    ELSE IF Len(nodes) = 1 THEN <<nodes[1]>>
    ELSE IF Len(nodes) = 2 THEN <<FromChildren(nodes[1], nodes[2])>>
    ELSE <<FromChildren(Build(SubSeq(nodes, 1, Len(nodes) \div 2))[1],
                        Build(SubSeq(nodes, Len(nodes) \div 2 + 1, Len(nodes)))[1])>>

\* Tree::build_tree
BuildTree(self, hashes) ==
    [self EXCEPT !.root = Build([i \in 1..Len(hashes) |-> NodeWithHash(hashes[i])])]

\* Tree::with_hashes
WithHashes(hashes) == BuildTree(TreeNew, hashes)

\* Tree::root_hash: the empty sequence for None, else the one hash
RootHash(self) == IF self.root = <<>> THEN <<>> ELSE <<self.root[1].hash>>

(***************************************************************************)
(* Block.  The target compares the first half of the hash, read as a       *)
(* big-endian number: 16 of 32 bytes in the program, one of the two bytes  *)
(* of the model's digest.  A shift by the width of that number or more     *)
(* panics in a build with overflow checks and takes the amount modulo the  *)
(* width in a build without them.                                          *)
(***************************************************************************)
\* u128::MAX, for the one-byte prefix of the model
PrefixMax == 255

\* u128::BITS, for the one-byte prefix of the model
PrefixBits == 8

RECURSIVE Pow2(_)
Pow2(n) == IF n = 0 THEN 1 ELSE 2 * Pow2(n - 1)

RECURSIVE FromBeBytes(_)
\* u128::from_be_bytes
FromBeBytes(bytes) ==
    IF bytes = <<>> THEN 0
    ELSE 256 * FromBeBytes(SubSeq(bytes, 1, Len(bytes) - 1)) + bytes[Len(bytes)]

\* the prefix read from the last half of the hash
HashPrefix_LastHalf(hash) ==
    FromBeBytes(SubSeq(hash, Len(hash) \div 2 + 1, Len(hash)))

\* u128::from_be_bytes(self.hash[..16])
HashPrefix(hash) == FromBeBytes(SubSeq(hash, 1, Len(hash) \div 2))

\* whether u128::MAX >> self.difficulty panics ("attempt to shift right with
\* overflow")
ShiftPanics(difficulty) == overflow_checks /\ difficulty >= PrefixBits

\* u128::MAX >> self.difficulty where it does not panic: the amount is
\* taken modulo the width
Target(difficulty) == PrefixMax \div Pow2(difficulty % PrefixBits)

RECURSIVE ConcatHashIds(_)
\* self.transactions.iter().for_each(|t| hasher.update(&t.hash_id))
ConcatHashIds(txns) ==
    IF txns = <<>> THEN <<>> ELSE Head(txns).hash_id \o ConcatHashIds(Tail(txns))

\* Block::calculate_hash; root_hash().unwrap() panics on a tree without root
BlockCalculateHash(self) ==
    IF RootHash(self.merkle_root) = <<>> THEN Err("panic")
    ELSE Ok(Blake3(LeBytes(self.index, 8)
                       \o LeBytes(self.timestamp, 16)
                       \o ConcatHashIds(self.transactions)
                       \o LeBytes(self.nonce, 8)
                       \o self.previous_hash
                       \o RootHash(self.merkle_root)[1]))

\* hash_prefix <= target
MeetsTarget(self) == HashPrefix(self.hash) <= Target(self.difficulty)

\* one pass of the loop of mine_block: the nonce and the hash calculated
\* for it stored in the block
WithNonce(self, nonce) ==
    LET tried == [self EXCEPT !.nonce = nonce] IN
    [tried EXCEPT !.hash = BlockCalculateHash(tried).value]

RECURSIVE MineLoop(_, _, _)
\* the loop of mine_block over the nonces lo..hi, tried in increasing order:
\* the first nonce whose hash meets the target, or none.  The range is
\* searched by halves, the lower half first.
MineLoop(self, lo, hi) ==
    IF lo > hi THEN {}
    ELSE IF lo = hi
    THEN IF MeetsTarget(WithNonce(self, lo)) THEN {lo} ELSE {}
    ELSE UNION {IF first # {} THEN first
                ELSE MineLoop(self, (lo + hi) \div 2 + 1, hi)
                : first \in {MineLoop(self, lo, (lo + hi) \div 2)}}

\* the nonces in the order of nonce.wrapping_add(1) from the present one:
\* up to the greatest nonce, MaxNonce, then from 0 on
MineFrom(self) ==
    UNION {IF first # {} THEN first ELSE MineLoop(self, 0, self.nonce - 1)
           : first \in {MineLoop(self, self.nonce, MaxNonce)}}

\* whether mine_block panics: in the shift of the target (line 78) or in
\* the unwrap of calculate_hash (line 71)
MinePanics(self) ==
    ShiftPanics(self.difficulty) \/ ~BlockCalculateHash(self).ok

\* Block::mine_block: the block after the call, at the first nonce from the
\* present one on whose hash meets the target; no block when it panics and
\* when no nonce meets the target, where the loop does not end
MineBlock(self) ==
    IF MinePanics(self) THEN {}
    ELSE {WithNonce(self, nonce) : nonce \in MineFrom(self)}

\* the nonce moved on without the wrap (saturating_add)
NextNonce_Saturating(nonce) == IF nonce = MaxNonce THEN nonce ELSE nonce + 1

\* the nonce moved on by two
NextNonce_ByTwo(nonce) == (nonce + 2) % (MaxNonce + 1)

\* self.nonce.wrapping_add(1); MaxNonce stands for u64::MAX
NextNonce(nonce) == (nonce + 1) % (MaxNonce + 1)

\* the pass that moves the nonce on before it tests the hash
MinePass_MovesFirst(self) ==
    LET moved == [self EXCEPT !.nonce = NextNonce(self.nonce)]
        tried == [moved EXCEPT !.hash = BlockCalculateHash(moved).value] IN
    [block |-> tried, done |-> MeetsTarget(tried)]

\* one pass of the loop of mine_block (lines 81-89) on a block that has a
\* merkle root: the hash stored, then either the break or the nonce moved on
MinePass(self) ==
    CHOOSE pass \in
        {IF MeetsTarget(tried)
         THEN [block |-> tried, done |-> TRUE]
         ELSE [block |-> [tried EXCEPT !.nonce = NextNonce(tried.nonce)],
               done |-> FALSE]
         : tried \in {[self EXCEPT !.hash = BlockCalculateHash(self).value]}}
        : TRUE

\* the number of passes of the loop of mine_block, one calculate_hash each,
\* from the block before to the block after
Hashes(self, mined) == ((mined.nonce - self.nonce) % (MaxNonce + 1)) + 1

\* Block::is_valid, where the shift does not panic
IsValid(self) == HashPrefix(self.hash) <= Target(self.difficulty)

\* the Block that Block::new builds before it mines it (lines 35-54); now
\* is the clock reading in milliseconds
Unmined(index, txns, previous_hash, difficulty, now) ==
    [index         |-> index,
     timestamp     |-> now,
     transactions  |-> txns,
     nonce         |-> 0,
     previous_hash |-> previous_hash,
     hash          |-> <<0, 0>>,
     difficulty    |-> difficulty,
     merkle_root   |-> WithHashes([i \in 1..Len(txns) |-> txns[i].hash_id])]

\* Block::new
BlockNew(index, txns, previous_hash, difficulty, now) ==
    MineBlock(Unmined(index, txns, previous_hash, difficulty, now))

(***************************************************************************)
(* net::message and net::protocol.  A Message is a record with its variant *)
(* in tag; the payloads of the model are the variants without a            *)
(* Transaction or a Block, with strings of ASCII characters.               *)
(***************************************************************************)
\* u16::MAX + 1: the cast `as u16` keeps a length modulo this
U16Modulus == 65536

\* VERSION.as_u16()
Version == 1

\* Command as u8 and TryFrom<u8> for Command
Commands == [Ping |-> 1, Get |-> 2, Post |-> 3]

\* StatusCode as u8 and TryFrom<u8> for StatusCode
StatusCodes == [OK |-> 0, NotFound |-> 1, Error |-> 2]

\* the codes of a kind of packet
CodesOf(kind) == IF kind = "Request" THEN Commands ELSE StatusCodes

\* the discriminant borsh writes for a variant of Message: its position in
\* the enum
Discriminant ==
    [PaymentTransaction |-> 0, Utxo |-> 1, BlockProposal |-> 2,
     BlockConfirmation |-> 3, PeerIntroduction |-> 4, BlockRequest |-> 5,
     BlockResponse |-> 6, InvalidTransactionAlert |-> 7, Ping |-> 8]

StringVariants == {"BlockConfirmation", "PeerIntroduction", "InvalidTransactionAlert"}

RECURSIVE FromLeBytes(_)
\* u32::from_le_bytes, u64::from_le_bytes
FromLeBytes(bytes) ==
    IF bytes = <<>> THEN 0 ELSE bytes[1] + 256 * FromLeBytes(Tail(bytes))

\* borsh of a String: the length as u32, then the bytes
StringBytes(str) == LeBytes(Len(str), 4) \o str

RECURSIVE StringsBytes(_)
StringsBytes(strs) ==
    IF strs = <<>> THEN <<>>
    ELSE StringBytes(Head(strs)) \o StringsBytes(Tail(strs))

\* message::serialize: the discriminant, then the body of the variant
Serialize(node_message) ==
    <<Discriminant[node_message.tag]>> \o
    CASE node_message.tag = "Ping" -> <<>>
      [] node_message.tag = "BlockRequest" -> LeBytes(node_message.n, 8)
      [] node_message.tag \in StringVariants -> StringBytes(node_message.s)
      [] node_message.tag = "Utxo" ->
            LeBytes(Len(node_message.v), 4) \o StringsBytes(node_message.v)

\* a String read from the front of bytes: the string and the bytes after
\* it, or an error when the bytes end early or are not UTF-8 (here: ASCII).
\* A length of 2^24 and more is beyond any bytes of the model.
ReadString(bytes) ==
    IF Len(bytes) < 4 \/ bytes[4] # 0 THEN Err("SerializationError")
    ELSE LET n == FromLeBytes(SubSeq(bytes, 1, 3)) IN
         IF Len(bytes) < 4 + n THEN Err("SerializationError")
         ELSE IF \E i \in 5..(4 + n) : bytes[i] >= 128
              THEN Err("SerializationError")
              ELSE Ok([s |-> SubSeq(bytes, 5, 4 + n),
                       rest |-> SubSeq(bytes, 5 + n, Len(bytes))])

RECURSIVE ReadStrings(_, _, _)
\* count Strings read from the front of bytes, after those of strs
ReadStrings(bytes, count, strs) ==
    IF count = 0 THEN Ok([v |-> strs, rest |-> bytes])
    ELSE LET one == ReadString(bytes) IN
         IF ~one.ok THEN one
         ELSE ReadStrings(one.value.rest, count - 1, Append(strs, one.value.s))

\* message::deserialize (borsh::de::from_slice): the Message whose bytes
\* these are; bytes left over are an error
Deserialize(message) ==
    IF message = <<>> THEN Err("SerializationError")
    ELSE LET body == Tail(message) IN
    CASE message[1] = Discriminant.Ping ->
            IF body = <<>> THEN Ok([tag |-> "Ping"]) ELSE Err("SerializationError")
      [] message[1] = Discriminant.BlockRequest ->
            IF Len(body) = 8
            THEN Ok([tag |-> "BlockRequest", n |-> FromLeBytes(body)])
            ELSE Err("SerializationError")
      [] message[1] \in {Discriminant[t] : t \in StringVariants} ->
            LET str == ReadString(body) IN
            IF str.ok /\ str.value.rest = <<>>
            THEN Ok([tag |-> CHOOSE t \in StringVariants : Discriminant[t] = message[1],
                     s |-> str.value.s])
            ELSE Err("SerializationError")
      [] message[1] = Discriminant.Utxo ->
            IF Len(body) < 4 \/ body[4] # 0 THEN Err("SerializationError")
            ELSE LET strs == ReadStrings(SubSeq(body, 5, Len(body)),
                                         FromLeBytes(SubSeq(body, 1, 3)), <<>>) IN
                 IF strs.ok /\ strs.value.rest = <<>>
                 THEN Ok([tag |-> "Utxo", v |-> strs.value.v])
                 ELSE Err("SerializationError")
      [] OTHER -> Err("SerializationError")

\* u16::to_be_bytes
BeBytes(n) == <<n \div 256, n % 256>>

\* Header::new
HeaderNew(content_size) == [version |-> Version, content_size |-> content_size]

\* Header::to_bytes
HeaderToBytes(self) == BeBytes(self.version) \o BeBytes(self.content_size)

\* Header::from_bytes
HeaderFromBytes(bytes) ==
    IF Len(bytes) < 4 THEN Err("InvalidMessageFormat")
    ELSE LET version == 256 * bytes[1] + bytes[2]
             content_size == 256 * bytes[3] + bytes[4] IN
         IF version # Version THEN Err("UnknownVersion")
         ELSE Ok([version |-> version, content_size |-> content_size])

\* serialized_payload.len() as u16, 0 for no payload
ContentSize(payload) ==
    IF payload.some THEN Len(Serialize(payload.vec[1])) % U16Modulus ELSE 0

\* Request::new and Response::new; code is the command or the status
PacketNew(kind, code, payload) ==
    [kind |-> kind, header |-> HeaderNew(ContentSize(payload)),
     code |-> code, payload |-> payload]

\* write_to_buffer, as Request::to_bytes and Response::to_bytes call it
WriteToBuffer(self) ==
    HeaderToBytes(self.header) \o <<CodesOf(self.kind)[self.code]>>
        \o (IF self.payload.some THEN Serialize(self.payload.vec[1]) ELSE <<>>)

\* read_from_buffer, as Request::from_bytes (kind "Request", T = Command)
\* and Response::from_bytes (kind "Response", T = StatusCode) call it
ReadFromBuffer(kind, bytes) ==
    IF Len(bytes) < 5 THEN Err("InvalidMessageFormat")
    ELSE LET header == HeaderFromBytes(SubSeq(bytes, 1, 4))
             codes == {c \in DOMAIN CodesOf(kind) : CodesOf(kind)[c] = bytes[5]}
             payload_bytes == SubSeq(bytes, 6, Len(bytes)) IN
    IF ~header.ok THEN header
    ELSE IF codes = {}
    THEN Err(IF kind = "Request" THEN "UnsupportedCommand"
             ELSE "UnsupportedStatusCode")
    ELSE IF Len(payload_bytes) # header.value.content_size
    THEN Err("HeaderMismatch")
    ELSE IF header.value.content_size > 0
    THEN LET decoded == Deserialize(payload_bytes) IN
         IF ~decoded.ok THEN decoded
         ELSE Ok([kind |-> kind, header |-> header.value,
                  code |-> CHOOSE c \in codes : TRUE,
                  payload |-> Some(<<decoded.value>>)])
    ELSE Ok([kind |-> kind, header |-> header.value,
             code |-> CHOOSE c \in codes : TRUE, payload |-> None])

(***************************************************************************)
(* The values offered to a transaction                                     *)
(***************************************************************************)
\* the hash of the creating transaction used by the tests: [1u8; 32]
SampleTxnHash == <<1, 1>>

\* the pending UTXOs offered: one of each value, at index 1, 2, ...
PendingUtxos == {UtxoNew(v, v).value : v \in 1..MaxValue}

\* the key that owns the confirmed UTXO of value v
OwnerOf(v) == VerifyingKey(1 + (v % NumKeys))

\* the confirmed UTXOs offered: each pending one, confirmed for its owner
ConfirmedUtxos ==
    {ConfirmUtxo(p, OwnerOf(p.value), SampleTxnHash, 1, FALSE, 0).value :
        p \in PendingUtxos}

Utxos == PendingUtxos \cup ConfirmedUtxos

\* the lists offered: those worth at most MaxValue
UtxoLists ==
    {l \in UNION {[1..n -> Utxos] : n \in 0..MaxValue} : SumValues(l) <= MaxValue}

\* a call on the transaction: of the list passed, its length and whether it
\* holds a Pending and a Confirmed UTXO; the transaction before the call
TxnCall(op, result, new_utxos, pre) ==
    [op |-> op, result |-> result,
     len |-> Len(new_utxos),
     any_pending |-> \E i \in 1..Len(new_utxos) : new_utxos[i].kind = "Pending",
     any_confirmed |-> \E i \in 1..Len(new_utxos) : new_utxos[i].kind = "Confirmed",
     pre |-> pre,
     script |-> <<>>, totals |-> <<>>]

\* the unlocking script the tests build for the holder of signing_key:
\* format!("{} {}", hex::encode(signature), hex::encode(sender))
UnlockingScript(signing_key) ==
    HexEncode(Sign(signing_key, Blake3(VerifyingKey(signing_key))))
        \o Space \o HexEncode(VerifyingKey(signing_key))

\* the scripts offered to verify: the script of each key, and the empty one
TxnScripts == {UnlockingScript(k) : k \in SigningKeys} \cup {<<>>}

\* a call of verify: the script, the result and the totals returned
VerifyCall(verified, unlocking_script, pre) ==
    [op |-> "verify",
     result |-> IF verified.ok THEN "Ok" ELSE verified.err,
     len |-> 0, any_pending |-> FALSE, any_confirmed |-> FALSE,
     pre |-> pre,
     script |-> unlocking_script,
     totals |-> IF verified.ok THEN verified.value ELSE <<>>]

(***************************************************************************)
(* The transaction as a state machine.                                     *)
(***************************************************************************)
\* the key after signing_key, the receiver of its transactions
ReceiverOf(signing_key) == VerifyingKey(1 + (signing_key % NumKeys))

\* Transaction::new for a sender, the next key as receiver, and the earliest
\* or the latest clock reading
TxnInit ==
    \E signing_key \in SigningKeys, now \in {0, MaxTime} :
        /\ transaction = TransactionNew(signing_key, ReceiverOf(signing_key), now)
        /\ txn_last = TxnCall("new", "Ok", <<>>, transaction)
        /\ signer = signing_key

add_inputs ==
    \E new_inputs \in UtxoLists, signing_key \in SigningKeys :
        /\ SumValues(transaction.inputs.vec) + SumValues(new_inputs) <= MaxValue
        /\ \E o \in {AddInputs(transaction, new_inputs, signing_key)} :
               /\ transaction' = o.txn
               /\ txn_last' = TxnCall("add_inputs", o.result, new_inputs, transaction)
               /\ signer' = IF o.result = "Ok" THEN signing_key ELSE signer
        /\ UNCHANGED <<mempool_vars, utxo_vars, block_vars, merkle_vars,
                     net_vars>>

add_outputs ==
    \E new_outputs \in UtxoLists, signing_key \in SigningKeys :
        /\ SumValues(transaction.outputs.vec) + SumValues(new_outputs) <= MaxValue
        /\ \E o \in {AddOutputs(transaction, new_outputs, signing_key)} :
               /\ transaction' = o.txn
               /\ txn_last' = TxnCall("add_outputs", o.result, new_outputs, transaction)
               /\ signer' = IF o.result = "Ok" THEN signing_key ELSE signer
        /\ UNCHANGED <<mempool_vars, utxo_vars, block_vars, merkle_vars,
                     net_vars>>

verify ==
    \E unlocking_script \in TxnScripts :
    \E verified \in {Verify(transaction, unlocking_script, overflow_checks)} :
        /\ txn_last' = VerifyCall(verified, unlocking_script, transaction)
        /\ UNCHANGED <<transaction, signer>>
        /\ UNCHANGED <<mempool_vars, utxo_vars, block_vars, merkle_vars,
                     net_vars>>

\* the values of any size: the least, half of 2^64, and u64::MAX
WideValues == {1, SizeModulus \div 2, SizeModulus - 1}

\* the lists of one or two UTXOs of any value at indexes 1, 2: Pending as
\* UTXO::new leaves them, or confirmed for the owner
WideUtxoLists(confirmed, owner) ==
    UNION {{[i \in 1..n |->
               IF confirmed
               THEN ConfirmUtxo(UtxoNew(values[i], i).value, owner,
                                SampleTxnHash, 1, FALSE, 0).value
               ELSE UtxoNew(values[i], i).value] :
             values \in [1..n -> WideValues]} : n \in 1..2}

\* a transaction given inputs of its sender and outputs, of any value, in
\* either build
FundsInit ==
    \E signing_key \in SigningKeys :
    \E new_inputs \in WideUtxoLists(TRUE, VerifyingKey(signing_key)),
       new_outputs \in WideUtxoLists(FALSE, <<>>) :
    \E funded \in {AddInputs(TransactionNew(signing_key, ReceiverOf(signing_key), 0),
                              new_inputs, signing_key)} :
    \E o \in {AddOutputs(funded.txn, new_outputs, signing_key)} :
        /\ transaction = o.txn
        /\ txn_last = TxnCall("add_outputs", o.result, new_outputs, funded.txn)
        /\ signer = signing_key

\* the transaction left aside while another component runs
TxnParked ==
    /\ transaction = TransactionNew(1, VerifyingKey(2), 0)
    /\ txn_last = TxnCall("new", "Ok", <<>>, transaction)
    /\ signer = 1

(***************************************************************************)
(* The scripts offered to unlock                                           *)
(***************************************************************************)
\* hex::encode of the signature of blake3::hash(owner) by signing_key
SigToken(signing_key) ==
    HexEncode(Sign(signing_key, Blake3(VerifyingKey(signing_key))))

\* hex::encode of the verifying key of signing_key
KeyToken(signing_key) == HexEncode(VerifyingKey(signing_key))

\* the characters of "zz", which is not hexadecimal
NotHex == <<122, 122>>

Tokens ==
    {SigToken(k) : k \in SigningKeys} \cup {KeyToken(k) : k \in SigningKeys}
        \cup {NotHex}

\* the string with its lowercase letters a-f in upper case
UpperHex(str) == [i \in 1..Len(str) |->
                     IF str[i] \in 97..102 THEN str[i] - 32 ELSE str[i]]

RECURSIVE Repeat(_, _)
\* n copies of str, each followed by a space
Repeat(str, n) == IF n = 0 THEN <<>> ELSE str \o Space \o Repeat(str, n - 1)

\* the scripts of no token, of one token, "true" among them, and of two
\* tokens; the script of
\* each key between up to MaxExtraTokens tokens "true", in upper case, and
\* with other whitespace around its tokens
UnlockingScripts ==
    {<<>>, TrueToken} \cup Tokens \cup {s \o Space \o t : s, t \in Tokens}
        \cup {Repeat(TrueToken, n) \o UnlockingScript(k) :
                 n \in 1..MaxExtraTokens, k \in SigningKeys}
        \cup {UnlockingScript(k) \o Space \o Repeat(TrueToken, n) :
                 n \in 1..MaxExtraTokens, k \in SigningKeys}
        \cup {UpperHex(UnlockingScript(k)) : k \in SigningKeys}
        \cup {<<9>> \o SigToken(k) \o <<32, 10>> \o KeyToken(k) \o <<13>> :
                 k \in SigningKeys}

(***************************************************************************)
(* The UTXO as a state machine                                             *)
(***************************************************************************)
NoUtxo == [kind |-> "None"]

\* a call on the UTXO: its arguments, the UTXO before it, the result and,
\* for a UTXO put into a transaction, what the transaction holds
UtxoCall(op, result, value, index, owner, unlocking_script, pre, held) ==
    [op |-> op, result |-> result, value |-> value, index |-> index,
     owner |-> owner, script |-> unlocking_script, pre |-> pre, held |-> held,
     txn_hash |-> <<>>, block_height |-> 0, coinbase |-> FALSE]

\* the hashes of creating transactions given to confirm_utxo: the one of the
\* tests and another
TxnHashes == {SampleTxnHash, <<2, 2>>}

\* UTXO::new of a positive value
UtxoInit ==
    \E value \in 1..MaxValue : \E index \in {0, value} :
        /\ utxo = UtxoNew(value, index).value
        /\ utxo_last = UtxoCall("new", "Ok", value, index, <<>>, <<>>, NoUtxo, <<>>)

\* UTXO::new makes another UTXO; a failed call leaves the one at hand
utxo_new ==
    \E value \in 0..MaxValue : \E index \in {0, value} :
    \E made \in {UtxoNew(value, index)} :
        /\ utxo' = IF made.ok THEN made.value ELSE utxo
        /\ utxo_last' = UtxoCall("new", IF made.ok THEN "Ok" ELSE made.err,
                                 value, index, <<>>, <<>>, utxo, <<>>)
        /\ UNCHANGED <<mempool_vars, txn_vars, block_vars, merkle_vars,
                     net_vars>>

\* confirm_utxo as the helpers of the tests call it: the sample transaction
\* hash, coinbase for index 0
confirm_utxo ==
    \E owner_key \in SigningKeys, txn_hash \in TxnHashes,
       block_height \in {1, 100}, now \in {0, MaxTime} :
    \E confirmed \in {ConfirmUtxo(utxo, VerifyingKey(owner_key), txn_hash,
                                  block_height, utxo.index = 0, now)} :
        /\ utxo' = IF confirmed.ok THEN confirmed.value ELSE utxo
        /\ utxo_last' = [UtxoCall("confirm_utxo",
                                  IF confirmed.ok THEN "Ok" ELSE confirmed.err,
                                  0, 0, VerifyingKey(owner_key), <<>>, utxo, <<>>)
                            EXCEPT !.txn_hash = txn_hash,
                                   !.block_height = block_height,
                                   !.coinbase = (utxo.index = 0)]
        /\ UNCHANGED <<mempool_vars, txn_vars, block_vars, merkle_vars,
                     net_vars>>

to_bytes ==
    /\ utxo_last' = UtxoCall("to_bytes", "Ok", 0, 0, <<>>, <<>>, utxo, <<>>)
    /\ UNCHANGED utxo
    /\ UNCHANGED <<mempool_vars, txn_vars, block_vars, merkle_vars,
                     net_vars>>

unlock ==
    \E unlocking_script \in UnlockingScripts :
        /\ utxo_last' = UtxoCall("unlock", Unlock(utxo, unlocking_script),
                                 0, 0, <<>>, unlocking_script, utxo, <<>>)
        /\ UNCHANGED utxo
        /\ UNCHANGED <<mempool_vars, txn_vars, block_vars, merkle_vars,
                     net_vars>>

\* the UTXO given to a new transaction, as an input when Confirmed and as an
\* output when Pending, and the transaction verified
in_transaction ==
    \E signing_key \in SigningKeys, unlocking_script \in TxnScripts :
    \E added \in {IF utxo.kind = "Confirmed"
                  THEN AddInputs(TransactionNew(signing_key, VerifyingKey(1), 0),
                                 <<utxo>>, signing_key)
                  ELSE AddOutputs(TransactionNew(signing_key, VerifyingKey(1), 0),
                                  <<utxo>>, signing_key)} :
    \E verified \in {Verify(added.txn, unlocking_script, overflow_checks)} :
        /\ utxo_last' = UtxoCall("transaction",
                                 IF verified.ok THEN "Ok" ELSE verified.err,
                                 0, 0, <<>>, unlocking_script, utxo,
                                 added.txn.inputs.vec \o added.txn.outputs.vec)
        /\ UNCHANGED utxo
        /\ UNCHANGED <<mempool_vars, txn_vars, block_vars, merkle_vars,
                     net_vars>>

\* the script_pubkey strings of the Confirmed UTXOs built directly or read
\* from bytes: the empty string, "true", "OP_CHECKSIG" alone, and the hash
\* of an owner without OP_CHECKSIG
ScriptPubkeys ==
    {<<>>, TrueToken, OpCheckSig}
        \cup {HexEncode(Blake3(VerifyingKey(k))) : k \in SigningKeys}

\* UTXO::Confirmed { .. } built from its public fields, or read from bytes
\* by BorshDeserialize: any script_pubkey
utxo_decode ==
    \E script_pubkey \in ScriptPubkeys :
        /\ utxo' = [kind          |-> "Confirmed",
                    id            |-> Blake3(SampleTxnHash \o LeBytes(0, 4)),
                    script_pubkey |-> script_pubkey,
                    value         |-> 1,
                    txn_hash      |-> SampleTxnHash,
                    index         |-> 0,
                    created_at    |-> 0,
                    block_height  |-> 1,
                    is_coinbase   |-> FALSE]
        /\ utxo_last' = UtxoCall("decode", "Ok", 1, 0, <<>>, <<>>, utxo, <<>>)
        /\ UNCHANGED <<mempool_vars, txn_vars, block_vars, merkle_vars,
                       net_vars>>

\* the UTXO left aside while another component runs
UtxoParked ==
    /\ utxo = UtxoNew(1, 1).value
    /\ utxo_last = UtxoCall("new", "Ok", 1, 1, <<>>, <<>>, NoUtxo, <<>>)

(***************************************************************************)
(* The block as a state machine                                            *)
(***************************************************************************)
\* the characters of "previous_hash_example"
PreviousHashExample ==
    <<112, 114, 101, 118, 105, 111, 117, 115, 95, 104, 97, 115, 104, 95,
      101, 120, 97, 109, 112, 108, 101>>

\* the transactions put into blocks: a new one of each key
BlockTxns ==
    {TransactionNew(k, ReceiverOf(k), 0) : k \in SigningKeys}

BlockTxnLists == UNION {[1..n -> BlockTxns] : n \in 0..MaxBlockTxns}

NoBlock == [index |-> 0]

\* the stop flag before it is set
NotStopped == [set |-> FALSE, passes |-> 0]

\* no call of mine_block in progress
Idle == [pc |-> "idle", hashes |-> 0, start |-> NoBlock, mined |-> FALSE]

BlockCall(op, result, pre, hashes) ==
    [op |-> op, result |-> result, pre |-> pre, hashes |-> hashes]

\* the difficulties asked for: the least ones, the greatest one below the
\* width of the prefix, the width and above
Difficulties ==
    (0..MaxDifficulty) \cup {PrefixBits - 1, PrefixBits, PrefixBits + 1}

\* Block::new at index 1 in either build; block_last.pre is the block before
\* it is mined.  A panic leaves no block.
BlockInit ==
    \E txns \in BlockTxnLists, previous_hash \in {<<>>, PreviousHashExample},
       difficulty \in Difficulties, now \in {0, MaxTime}, checks \in BOOLEAN :
        \E unmined \in {Unmined(1, txns, previous_hash, difficulty, now)} :
            /\ overflow_checks = checks
            /\ miner = Idle
            /\ stop_flag = NotStopped
            /\ IF MinePanics(unmined)
               THEN /\ block = NoBlock
                    /\ block_last = BlockCall("new", "panic", unmined, 0)
               ELSE /\ block \in BlockNew(1, txns, previous_hash, difficulty, now)
                    /\ block_last = BlockCall("new", "Ok", unmined,
                                              Hashes(unmined, block))

\* mine_block on the block held; after a panic there is no block to call
mine_block ==
    /\ block # NoBlock
    /\ \E mined \in MineBlock(block) :
        /\ block' = mined
        /\ block_last' = BlockCall("mine_block", "Ok", block, Hashes(block, mined))
    /\ UNCHANGED <<overflow_checks, miner, stop_flag, mempool_vars, txn_vars,
                   utxo_vars, merkle_vars, net_vars>>

\* BorshDeserialize: a block read from bytes that hold the present block
\* with another nonce and hash
deserialize ==
    /\ block # NoBlock
    /\ \E nonce \in {0, MaxNonce}, hash \in {<<0, 0>>, <<250, 250>>} :
        /\ block' = [block EXCEPT !.nonce = nonce, !.hash = hash]
        /\ block_last' = BlockCall("deserialize", "Ok", block, 0)
    /\ UNCHANGED <<overflow_checks, miner, stop_flag, mempool_vars, txn_vars,
                   utxo_vars, merkle_vars, net_vars>>

\* the block left aside while another component runs
BlockParked ==
    /\ block = NoBlock
    /\ block_last = BlockCall("new", "Ok", NoBlock, 0)
    /\ overflow_checks = FALSE
    /\ miner = Idle
    /\ stop_flag = NotStopped

(***************************************************************************)
(* mine_block pass by pass.  miner.pc is the place of the call: "idle"     *)
(* before it, "loop" at the head of the loop, "done" after the break,      *)
(* "panic" after a panic; hashes counts the calls of calculate_hash, start *)
(* is the block the call was made on and mined tells that this block was   *)
(* left by an earlier call.                                                *)
(***************************************************************************)
\* the block Block::new has built and is about to mine, and a block read
\* from bytes with the greatest nonce; the blocks have one transaction or
\* none, the loop reads them only through calculate_hash
MineInit ==
    \E txns \in {l \in BlockTxnLists : Len(l) <= 1}, previous_hash \in {<<>>, PreviousHashExample},
       difficulty \in Difficulties, now \in {0, MaxTime}, checks \in BOOLEAN,
       nonce \in {0, MaxNonce} :
        /\ block = [Unmined(1, txns, previous_hash, difficulty, now)
                        EXCEPT !.nonce = nonce]
        /\ block_last = BlockCall(IF nonce = 0 THEN "new" ELSE "deserialize",
                                  "Ok", NoBlock, 0)
        /\ overflow_checks = checks
        /\ miner = Idle
        /\ stop_flag = NotStopped

\* the call of mine_block and the shift of its first line
mine_call ==
    /\ miner.pc \in {"idle", "done"}
    /\ miner' = [pc     |-> IF ShiftPanics(block.difficulty) THEN "panic" ELSE "loop",
                 hashes |-> 0,
                 start  |-> block,
                 mined  |-> (miner.pc = "done")]
    /\ UNCHANGED <<block, block_last, overflow_checks, stop_flag, mempool_vars,
                   txn_vars, utxo_vars, merkle_vars, net_vars>>

\* one pass of the loop
mine_pass ==
    /\ miner.pc = "loop"
    /\ IF ~BlockCalculateHash(block).ok
       THEN /\ miner' = [miner EXCEPT !.pc = "panic", !.hashes = @ + 1]
            /\ UNCHANGED block
       ELSE \E pass \in {MinePass(block)} :
            /\ block' = pass.block
            /\ miner' = [miner EXCEPT !.pc = IF pass.done THEN "done" ELSE "loop",
                                      !.hashes = IF @ > MaxNonce THEN @ ELSE @ + 1]
    /\ stop_flag' = [stop_flag EXCEPT
                        !.passes = IF stop_flag.set /\ @ < 2 THEN @ + 1 ELSE @]
    /\ UNCHANGED <<block_last, overflow_checks, mempool_vars, txn_vars,
                   utxo_vars, merkle_vars, net_vars>>

\* another thread stores true to the stop flag the caller holds while the
\* loop runs; mine_block takes no flag and reads none
set_stop ==
    /\ miner.pc = "loop"
    /\ ~stop_flag.set
    /\ stop_flag' = [set |-> TRUE, passes |-> 0]
    /\ UNCHANGED <<block, block_last, overflow_checks, miner, mempool_vars,
                   txn_vars, utxo_vars, merkle_vars, net_vars>>

(***************************************************************************)
(* The merkle tree as a state machine                                      *)
(***************************************************************************)
\* the hashes of the test of the tree: [1u8; 32], [2u8; 32], [3u8; 32]
LeafHashes == {<<1, 1>>, <<2, 2>>, <<3, 3>>}

LeafLists == UNION {[1..n -> LeafHashes] : n \in 0..MaxLeaves}

MerkleCall(op, leaves) == [op |-> op, leaves |-> leaves]

\* Tree::new
MerkleInit ==
    /\ tree = TreeNew
    /\ merkle_last = MerkleCall("new", <<>>)

\* Tree::with_hashes: another tree
with_hashes ==
    \E hashes \in LeafLists :
        /\ tree' = WithHashes(hashes)
        /\ merkle_last' = MerkleCall("with_hashes", hashes)
        /\ UNCHANGED <<mempool_vars, txn_vars, utxo_vars, block_vars,
                     net_vars>>

\* Tree::build_tree on the tree held
build_tree ==
    \E hashes \in LeafLists :
        /\ tree' = BuildTree(tree, hashes)
        /\ merkle_last' = MerkleCall("build_tree", hashes)
        /\ UNCHANGED <<mempool_vars, txn_vars, utxo_vars, block_vars,
                     net_vars>>

\* the tree left aside while another component runs
MerkleParked == MerkleInit

(***************************************************************************)
(* Requests and responses as a state machine                               *)
(***************************************************************************)
\* the character 'a'
CharA == 97

\* a string of n characters
StringOf(n) == [i \in 1..n |-> CharA]

ShortStrings == {StringOf(n) : n \in 0..MaxStrLen}

\* the strings whose message takes one byte less than 2^16 bytes, 2^16 bytes
\* and one byte more: a discriminant, four bytes of length and the string
LongStrings == {StringOf(U16Modulus - 5 + d) : d \in {-1, 0, 1}}

Messages ==
    {[tag |-> "Ping"]}
    \cup {[tag |-> "BlockRequest", n |-> n] : n \in {0, 1, 256}}
    \cup {[tag |-> t, s |-> s] : t \in StringVariants, s \in ShortStrings}
    \cup {[tag |-> "BlockConfirmation", s |-> s] : s \in LongStrings}
    \cup {[tag |-> "Utxo", v |-> v]
             : v \in UNION {[1..n -> ShortStrings] : n \in 0..MaxStrLen}}

Payloads == {None} \cup {Some(<<m>>) : m \in Messages}

NoPacket == [kind |-> "None"]

NetCall(op, result, kind, pre) ==
    [op |-> op, result |-> result, kind |-> kind, pre |-> pre]

\* Request::new and Response::new
NetInit ==
    \E kind \in {"Request", "Response"}, payload \in Payloads :
        \E code \in DOMAIN CodesOf(kind) :
            /\ packet = PacketNew(kind, code, payload)
            /\ buffer = <<>>
            /\ net_last = NetCall("new", "Ok", kind, NoPacket)

\* Request::to_bytes and Response::to_bytes
net_to_bytes ==
    /\ buffer' = WriteToBuffer(packet)
    /\ net_last' = NetCall("to_bytes", "Ok", packet.kind, packet)
    /\ UNCHANGED <<packet, mempool_vars, txn_vars, utxo_vars, block_vars,
                   merkle_vars>>

\* Request::from_bytes and Response::from_bytes on the bytes written; the
\* packet read takes the place of the one held
net_from_bytes ==
    \E kind \in {"Request", "Response"} :
        \E read \in {ReadFromBuffer(kind, buffer)} :
            /\ packet' = IF read.ok THEN read.value ELSE packet
            /\ net_last' = NetCall("from_bytes",
                                   IF read.ok THEN "Ok" ELSE read.err, kind, packet)
            /\ UNCHANGED <<buffer, mempool_vars, txn_vars, utxo_vars, block_vars,
                           merkle_vars>>

\* the packet left aside while another component runs
NetParked ==
    /\ packet = PacketNew("Request", "Ping", None)
    /\ buffer = <<>>
    /\ net_last = NetCall("new", "Ok", "Request", NoPacket)

(***************************************************************************)
(* The mempool as a state machine                                          *)
(***************************************************************************)
NoTxn == [hash_id |-> 0, nbytes |-> 0]

Call(op, result, txn, fee_per_byte, mbs, block_txns, evicted) ==
    [op |-> op, result |-> result, txn |-> txn, fee_per_byte |-> fee_per_byte,
     max_block_size |-> mbs, block_txns |-> block_txns, evicted |-> evicted,
     pre_transactions |-> transactions, pre_queue |-> priority_queue]

\* no call of get_transactions_for_block in progress
NotSelecting ==
    [pc |-> "idle", block_txns |-> <<>>, block_size |-> 0, max_block_size |-> 0,
     root |-> <<>>]

\* MemPool::new(max_size)
MemPoolInit ==
    /\ max_size \in 0..MaxPoolSize
    /\ transactions = EmptyMap
    /\ priority_queue = EmptyBag
    /\ last = [op |-> "new", result |-> "Ok", txn |-> NoTxn, fee_per_byte |-> 0,
               max_block_size |-> 0, block_txns |-> <<>>, evicted |-> <<>>,
               pre_transactions |-> EmptyMap, pre_queue |-> EmptyBag]
    /\ selector = NotSelecting

add_transaction ==
    \E txn \in PoolTxns, fee \in 0..MaxFee, now \in 0..MaxTime :
    \E o \in AddTransactionOutcomes(Pool(transactions, priority_queue),
                                    max_size, txn, fee, now) :
        /\ transactions' = o.pool.transactions
        /\ priority_queue' = o.pool.priority_queue
        /\ last' = Call("add", o.result, txn, fee \div TxnSize(txn), 0, <<>>, o.evicted)
        /\ UNCHANGED <<max_size, selector>>
        /\ UNCHANGED <<txn_vars, utxo_vars, block_vars, merkle_vars,
                     net_vars>>

remove_transaction ==
    \E tx_hash \in 1..NumTxns :
        LET o == RemoveTransaction(Pool(transactions, priority_queue), tx_hash) IN
        /\ transactions' = o.transactions
        /\ priority_queue' = o.priority_queue
        /\ last' = Call("remove",
                        IF tx_hash \in DOMAIN transactions THEN "Some" ELSE "None",
                        IF tx_hash \in DOMAIN transactions
                            THEN transactions[tx_hash] ELSE NoTxn,
                        0, 0, <<>>, <<>>)
        /\ UNCHANGED <<max_size, selector>>
        /\ UNCHANGED <<txn_vars, utxo_vars, block_vars, merkle_vars,
                     net_vars>>

get_transactions_for_block ==
    \E max_block_size \in 0..MaxBlockSize :
    \E o \in GetTransactionsForBlockOutcomes(Pool(transactions, priority_queue),
                                             max_block_size) :
        /\ transactions' = o.pool.transactions
        /\ priority_queue' = o.pool.priority_queue
        /\ last' = Call("get", "Ok", NoTxn, 0, max_block_size, o.block_txns, <<>>)
        /\ UNCHANGED <<max_size, selector>>
        /\ UNCHANGED <<txn_vars, utxo_vars, block_vars, merkle_vars,
                     net_vars>>

\* the sizes asked for: the least ones and the greatest usize
MaxBlockSizes == (0..MaxBlockSize) \cup {UsizeMax}

\* the call of get_transactions_for_block (mempool.rs 141-143); last holds
\* the pool at the call
select_call ==
    /\ selector.pc = "idle"
    /\ \E max_block_size \in MaxBlockSizes :
        /\ selector' = [pc             |-> "loop",
                        block_txns     |-> <<>>,
                        block_size     |-> 0,
                        max_block_size |-> max_block_size,
                        root           |-> <<>>]
        /\ last' = Call("get", "pending", NoTxn, 0, max_block_size, <<>>, <<>>)
    /\ UNCHANGED <<max_size, transactions, priority_queue>>
    /\ UNCHANGED <<txn_vars, utxo_vars, block_vars, merkle_vars, net_vars>>

\* one pass of its loop; the pass that leaves the loop removes the
\* transactions selected and returns them
select_pass ==
    /\ selector.pc = "loop"
    /\ \E o \in SelectPass(Pool(transactions, priority_queue), selector,
                           overflow_checks) :
        /\ transactions' = o.pool.transactions
        /\ priority_queue' = o.pool.priority_queue
        /\ selector' = IF o.selector.pc = "done" THEN NotSelecting
                       ELSE o.selector
        /\ last' = IF o.selector.pc = "done"
                   THEN [last EXCEPT !.result = "Ok",
                                     !.block_txns = o.selector.block_txns]
                   ELSE IF o.selector.pc = "panic"
                   THEN [last EXCEPT !.result = "panic"]
                   ELSE last
    /\ UNCHANGED max_size
    /\ UNCHANGED <<txn_vars, utxo_vars, block_vars, merkle_vars, net_vars>>

\* the calls that take the pool as a whole, between two calls of
\* get_transactions_for_block
select_between ==
    /\ selector.pc = "idle"
    /\ (add_transaction \/ remove_transaction)

\* the mempool left aside while a transaction is built
MemPoolParked ==
    /\ max_size = 0
    /\ transactions = EmptyMap
    /\ priority_queue = EmptyBag
    /\ last = [op |-> "new", result |-> "Ok", txn |-> NoTxn, fee_per_byte |-> 0,
               max_block_size |-> 0, block_txns |-> <<>>, evicted |-> <<>>,
               pre_transactions |-> EmptyMap, pre_queue |-> EmptyBag]
    /\ selector = NotSelecting

Init ==
    /\ MemPoolInit /\ TxnParked /\ UtxoParked /\ BlockParked /\ MerkleParked
    /\ NetParked

Next == add_transaction \/ remove_transaction \/ get_transactions_for_block

Spec == Init /\ [][Next]_vars

TxnSpecInit ==
    /\ TxnInit /\ MemPoolParked /\ UtxoParked /\ BlockParked /\ MerkleParked
    /\ NetParked

TxnNext == add_inputs \/ add_outputs \/ verify

TxnSpec == TxnSpecInit /\ [][TxnNext]_vars

UtxoSpecInit ==
    /\ UtxoInit /\ MemPoolParked /\ TxnParked /\ BlockParked /\ MerkleParked
    /\ NetParked

UtxoNext == utxo_new \/ confirm_utxo \/ to_bytes \/ unlock \/ in_transaction

UtxoSpec == UtxoSpecInit /\ [][UtxoNext]_vars

BlockSpecInit ==
    /\ BlockInit /\ MemPoolParked /\ TxnParked /\ UtxoParked /\ MerkleParked
    /\ NetParked

BlockNext == mine_block \/ deserialize

BlockSpec == BlockSpecInit /\ [][BlockNext]_vars

MerkleSpecInit ==
    /\ MerkleInit /\ MemPoolParked /\ TxnParked /\ UtxoParked /\ BlockParked
    /\ NetParked

MerkleNext == with_hashes \/ build_tree

MerkleSpec == MerkleSpecInit /\ [][MerkleNext]_vars

\* verify on transactions of any value, in either build
FundsSpecInit ==
    /\ FundsInit /\ MemPoolParked /\ UtxoParked /\ MerkleParked /\ NetParked
    /\ block = NoBlock
    /\ block_last = BlockCall("new", "Ok", NoBlock, 0)
    /\ miner = Idle
    /\ stop_flag = NotStopped
    /\ overflow_checks \in BOOLEAN

FundsNext == verify

FundsSpec == FundsSpecInit /\ [][FundsNext]_vars

\* the UTXOs of any script_pubkey and the script machine
ScriptSpecInit ==
    /\ UtxoInit /\ MemPoolParked /\ TxnParked /\ BlockParked /\ MerkleParked
    /\ NetParked

ScriptNext == utxo_decode \/ confirm_utxo \/ unlock

ScriptSpec == ScriptSpecInit /\ [][ScriptNext]_vars

\* the mempool in either build
SelectSpecInit ==
    /\ MemPoolInit /\ TxnParked /\ UtxoParked /\ MerkleParked /\ NetParked
    /\ block = NoBlock
    /\ block_last = BlockCall("new", "Ok", NoBlock, 0)
    /\ miner = Idle
    /\ stop_flag = NotStopped
    /\ overflow_checks \in BOOLEAN

SelectNext == select_between \/ select_call \/ select_pass

SelectSpec == SelectSpecInit /\ [][SelectNext]_vars

\* get_transactions_for_block on a thread that keeps running
SelectLiveSpec == SelectSpecInit /\ [][SelectNext]_vars /\ WF_vars(select_pass)

MineSpecInit ==
    /\ MineInit /\ MemPoolParked /\ TxnParked /\ UtxoParked /\ MerkleParked
    /\ NetParked

MineNext == mine_call \/ mine_pass

MineSpec == MineSpecInit /\ [][MineNext]_vars

\* mine_block on a thread that keeps running: a pass of the loop that can
\* be taken is taken
MineLiveSpec == MineSpecInit /\ [][MineNext]_vars /\ WF_vars(mine_pass)

\* mine_block on a thread of its own, and a thread that sets the stop flag
MineStopNext == mine_call \/ mine_pass \/ set_stop

MineStopSpec == MineSpecInit /\ [][MineStopNext]_vars /\ WF_vars(mine_pass)

NetSpecInit ==
    /\ NetInit /\ MemPoolParked /\ TxnParked /\ UtxoParked /\ BlockParked
    /\ MerkleParked

NetNext == net_to_bytes \/ net_from_bytes

NetSpec == NetSpecInit /\ [][NetNext]_vars

(***************************************************************************)
(* Properties of the mempool                                               *)
(***************************************************************************)
Keys(txns) == DOMAIN txns

\* the txn_hash values held in a queue
QueueHashes(queue) == {e.txn_hash : e \in BagToSet(queue)}

\* the entries of a queue recorded for one hash
EntriesOf(queue, h) == {e \in BagToSet(queue) : e.txn_hash = h}

\* the fees recorded in a queue
QueueFees(queue) == {e.fee_per_byte : e \in BagToSet(queue)}

MinOf(S) == CHOOSE x \in S : \A y \in S : x <= y

MaxOf(S) == CHOOSE x \in S : \A y \in S : x >= y

\* the fee_per_byte recorded for the transaction of hash h
FeeOf(queue, h) == (CHOOSE e \in EntriesOf(queue, h) : TRUE).fee_per_byte

\* the size recorded for the transaction of hash h
SizeOf(queue, h) == (CHOOSE e \in EntriesOf(queue, h) : TRUE).size

RECURSIVE SumOfSizes(_, _)
SumOfSizes(queue, txns) ==
    IF txns = <<>> THEN 0
    ELSE SizeOf(queue, Head(txns).hash_id) + SumOfSizes(queue, Tail(txns))

PoolUnchanged ==
    /\ transactions = last.pre_transactions
    /\ priority_queue = last.pre_queue

\* an add_transaction call of a transaction not yet held, on a full pool
AddOnFullPool ==
    /\ last.op = "add"
    /\ max_size >= 1
    /\ Cardinality(Keys(last.pre_transactions)) = max_size
    /\ last.txn.hash_id \notin Keys(last.pre_transactions)

\* C1: the number of transactions held in the map never exceeds max_size,
\* for every max_size including 0 and 1.
C1_SizeWithinMax == Cardinality(Keys(transactions)) <= max_size

\* C2: the txn_hash values of the priority queue are exactly the keys of the
\* transactions map, and no txn_hash occurs in more than one queue entry.
C2_QueueMatchesMap ==
    /\ QueueHashes(priority_queue) = Keys(transactions)
    /\ \A e \in BagToSet(priority_queue) : CopiesIn(e, priority_queue) = 1
    /\ \A h \in QueueHashes(priority_queue) :
           Cardinality(EntriesOf(priority_queue, h)) = 1

\* C2 witness: a pool of two transactions reached after an eviction.
C2_Witness ==
    /\ last.op = "add" /\ last.evicted # <<>>
    /\ Cardinality(Keys(transactions)) = 2

\* C3: add_transaction on a full pool (len = max_size >= 1) of a transaction
\* not yet held whose fee_per_byte strictly exceeds the minimum fee_per_byte
\* of the pool succeeds, evicts exactly one transaction, that transaction has
\* the minimum fee_per_byte of the pool, and the incoming one is present.
C3_EvictsMinimumFee ==
    (AddOnFullPool /\ last.fee_per_byte > MinOf(QueueFees(last.pre_queue)))
    => /\ last.result = "Ok"
       /\ Len(last.evicted) = 1
       /\ last.evicted[1].fee_per_byte = MinOf(QueueFees(last.pre_queue))
       /\ last.evicted[1].txn_hash \in Keys(last.pre_transactions)
       /\ Keys(transactions) =
              (Keys(last.pre_transactions) \ {last.evicted[1].txn_hash})
                  \cup {last.txn.hash_id}
       /\ transactions[last.txn.hash_id] = last.txn
       /\ EntriesOf(priority_queue, last.evicted[1].txn_hash) = {}
       /\ Cardinality(Keys(transactions)) = max_size

\* C3 witness: an eviction from a full pool of two transactions with
\* different fees, the incoming fee lying between them.
C3_Witness ==
    /\ AddOnFullPool /\ max_size = 2
    /\ last.fee_per_byte > MinOf(QueueFees(last.pre_queue))
    /\ last.fee_per_byte < MaxOf(QueueFees(last.pre_queue))
    /\ last.result = "Ok"

\* C4: add_transaction on a full pool (len >= max_size, with an eviction
\* candidate at the root of the queue) of a transaction not yet held whose
\* fee_per_byte is at most that of the eviction candidate fails with
\* TxnLowFee and leaves the map and the queue exactly as before.
C4_LowFeeRejected ==
    (/\ last.op = "add"
     /\ last.txn.hash_id \notin Keys(last.pre_transactions)
     /\ Cardinality(Keys(last.pre_transactions)) >= max_size
     /\ \E c \in Peek(last.pre_queue) : last.fee_per_byte <= c.fee_per_byte)
    => /\ last.result = "TxnLowFee"
       /\ last.evicted = <<>>
       /\ PoolUnchanged

\* C4 witness: a rejection where the incoming fee equals the candidate's.
C4_Witness ==
    /\ AddOnFullPool
    /\ \E c \in Peek(last.pre_queue) : last.fee_per_byte = c.fee_per_byte
    /\ last.result = "TxnLowFee"

\* C5: add_transaction of a transaction whose hash_id is already a key fails
\* with TxnExistInMempool, whatever the fee and whether or not the pool is
\* full, and leaves the map and the queue unchanged.
C5_DuplicateRejected ==
    (last.op = "add" /\ last.txn.hash_id \in Keys(last.pre_transactions))
    => /\ last.result = "TxnExistInMempool"
       /\ PoolUnchanged

\* C5 witness: a duplicate offered with a higher fee to a pool that is not full.
C5_Witness ==
    /\ last.op = "add" /\ last.result = "TxnExistInMempool"
    /\ Cardinality(Keys(last.pre_transactions)) < max_size
    /\ last.fee_per_byte > FeeOf(last.pre_queue, last.txn.hash_id)

\* C6: whenever get_transactions_for_block returns a non-empty list, the first
\* returned transaction has the maximum fee_per_byte of the pool and the
\* returned fees are in non-increasing order.
C6_HighestFeeFirst ==
    (last.op = "get" /\ last.block_txns # <<>>)
    => /\ FeeOf(last.pre_queue, last.block_txns[1].hash_id)
              = MaxOf(QueueFees(last.pre_queue))
       /\ \A i \in 1..(Len(last.block_txns) - 1) :
              FeeOf(last.pre_queue, last.block_txns[i].hash_id)
                  >= FeeOf(last.pre_queue, last.block_txns[i + 1].hash_id)

\* C7: the list returned by get_transactions_for_block holds no hash_id more
\* than once and is no longer than the number of transactions in the pool.
C7_ConsumedOnce ==
    (last.op = "get")
    => /\ \A i, j \in 1..Len(last.block_txns) :
              i # j => last.block_txns[i].hash_id # last.block_txns[j].hash_id
       /\ Len(last.block_txns) <= Cardinality(Keys(last.pre_transactions))

ReturnedHashes == {last.block_txns[i].hash_id : i \in 1..Len(last.block_txns)}

\* C8: after get_transactions_for_block every returned transaction is absent
\* from the map and from the queue, and every transaction that was held and
\* was not returned is still in both with its entry unchanged.
C8_ReturnedRemovedOthersKept ==
    (last.op = "get")
    => /\ \A h \in ReturnedHashes :
              /\ h \notin Keys(transactions)
              /\ EntriesOf(priority_queue, h) = {}
       /\ \A h \in Keys(last.pre_transactions) \ ReturnedHashes :
              /\ h \in Keys(transactions)
              /\ transactions[h] = last.pre_transactions[h]
              /\ EntriesOf(priority_queue, h) = EntriesOf(last.pre_queue, h)
              /\ \A e \in EntriesOf(priority_queue, h) :
                     CopiesIn(e, priority_queue) = CopiesIn(e, last.pre_queue)

\* C8 witness: a call that returned something and left something.
C8_Witness ==
    /\ last.op = "get" /\ last.block_txns # <<>>
    /\ Keys(last.pre_transactions) \ ReturnedHashes # {}

\* C9: the recorded sizes of the transactions returned by
\* get_transactions_for_block sum to strictly less than max_block_size
\* whenever anything is returned; with max_block_size = 0, or no larger than
\* the size of the first entry, the list is empty and nothing is removed.
C9_TotalBelowMaxBlockSize ==
    (last.op = "get")
    => /\ last.block_txns # <<>> =>
              SumOfSizes(last.pre_queue, last.block_txns) < last.max_block_size
       /\ (\/ last.max_block_size = 0
           \/ /\ last.pre_queue # EmptyBag
              /\ \A e \in Peek(last.pre_queue) : e.size >= last.max_block_size)
          => (last.block_txns = <<>> /\ PoolUnchanged)

\* C9 witness: a selection whose total is one below max_block_size.
C9_Witness ==
    /\ last.op = "get" /\ last.block_txns # <<>>
    /\ SumOfSizes(last.pre_queue, last.block_txns) + 1 = last.max_block_size

\* C9 witness of the boundary: max_block_size equal to the first entry's size.
C9_BoundaryWitness ==
    /\ last.op = "get" /\ last.pre_queue # EmptyBag
    /\ \A o \in Peek(last.pre_queue) : o.size = last.max_block_size
    /\ last.block_txns = <<>>

(***************************************************************************)
(* Properties of the transaction                                           *)
(***************************************************************************)
RECURSIVE BytesOfAll(_)
BytesOfAll(utxos) ==
    IF utxos = <<>> THEN <<>>
    ELSE BytesOfAll(SubSeq(utxos, 1, Len(utxos) - 1)) \o ToBytes(utxos[Len(utxos)])

\* sender || receiver || timestamp_le || inputs in order || outputs in order
BodyBytes(t) ==
    t.sender \o t.receiver \o LeBytes(t.timestamp, 4)
        \o BytesOfAll(t.inputs.vec) \o BytesOfAll(t.outputs.vec)

\* C10: after Transaction::new and after every call of add_inputs or
\* add_outputs, successful or failed, hash_id is the hash of sender, receiver,
\* timestamp_le, the bytes of the current inputs in order and the bytes of the
\* current outputs in order.
C10_HashMatchesBody == transaction.hash_id = Blake3(BodyBytes(transaction))

\* C10 witness: a transaction with inputs and outputs, after a failed call
\* that followed successful ones.
C10_Witness ==
    /\ txn_last.op \in {"add_inputs", "add_outputs"}
    /\ txn_last.result # "Ok"
    /\ transaction.inputs.vec # <<>> /\ transaction.outputs.vec # <<>>
    /\ transaction.hash_id # TransactionNew(1, transaction.receiver, transaction.timestamp).hash_id

\* C11, as stated: after Transaction::new and any add_inputs and add_outputs
\* calls, whatever signing key each is given, signature is a valid signature
\* of the current hash_id under the key stored in sender.
C11_SignedBySender ==
    VerifyStrict(transaction.sender, transaction.hash_id, transaction.signature)

\* C11, amended: signature is a valid signature of the current hash_id under
\* the verifying key of the signing key given to the last successful call of
\* new, add_inputs or add_outputs; it is valid under sender exactly when that
\* key is the key of sender.
C11_SignedByLastSigner ==
    /\ VerifyStrict(VerifyingKey(signer), transaction.hash_id, transaction.signature)
    /\ C11_SignedBySender <=> (VerifyingKey(signer) = transaction.sender)

\* C11 witness: inputs added with a key other than the sender's, then a
\* failed call.
C11_Witness ==
    /\ VerifyingKey(signer) # transaction.sender
    /\ transaction.inputs.vec # <<>>
    /\ txn_last.op = "add_outputs" /\ txn_last.result = "InsufficientFunds"

\* C12: every element of inputs is a Confirmed UTXO and every element of
\* outputs is a Pending UTXO; add_inputs of a list holding a Pending UTXO
\* fails with PendingUTXO and add_outputs of a list holding a Confirmed UTXO
\* fails with ConfirmedUTXO.
C12_InputsConfirmedOutputsPending ==
    /\ \A i \in 1..Len(transaction.inputs.vec) :
           transaction.inputs.vec[i].kind = "Confirmed"
    /\ \A i \in 1..Len(transaction.outputs.vec) :
           transaction.outputs.vec[i].kind = "Pending"
    /\ (txn_last.op = "add_inputs" /\ txn_last.any_pending)
           => txn_last.result = "PendingUTXO"
    /\ (txn_last.op = "add_outputs" /\ txn_last.any_confirmed)
           => txn_last.result = "ConfirmedUTXO"

\* C12 witness: add_inputs of a list that holds a Confirmed and a Pending
\* UTXO, on a transaction that has outputs.
C12_Witness ==
    /\ txn_last.op = "add_inputs" /\ txn_last.result = "PendingUTXO"
    /\ txn_last.any_confirmed /\ txn_last.len = 2
    /\ transaction.outputs.vec # <<>>

\* C13: when add_inputs or add_outputs returns an error (InsufficientFunds
\* for an empty list, PendingUTXO or ConfirmedUTXO for a list with a UTXO of
\* the wrong variant) the transaction is exactly as before the call.
C13_ErrorLeavesUnchanged ==
    (txn_last.op \in {"add_inputs", "add_outputs"})
    => /\ txn_last.len = 0 => txn_last.result = "InsufficientFunds"
       /\ txn_last.result # "Ok" =>
              /\ transaction = txn_last.pre
              /\ txn_last.result \in {"InsufficientFunds", "PendingUTXO", "ConfirmedUTXO"}
       /\ txn_last.result = "Ok" =>
              /\ txn_last.len > 0
              /\ Len(transaction.inputs.vec) + Len(transaction.outputs.vec) =
                     Len(txn_last.pre.inputs.vec) + Len(txn_last.pre.outputs.vec)
                         + txn_last.len

\* C13 witness: add_outputs of a list with an acceptable and a wrong element
\* rejected, on a transaction that had inputs.
C13_Witness ==
    /\ txn_last.op = "add_outputs" /\ txn_last.result = "ConfirmedUTXO"
    /\ txn_last.any_pending
    /\ txn_last.pre.inputs.vec # <<>>

\* the sender is a key, the inputs are Confirmed, the outputs Pending, the
\* outputs worth no more than the inputs, every input unlocked by the script
\* and the signature one of hash_id under sender
VerifyConditions(t, unlocking_script) ==
    /\ IsPoint(t.sender)
    /\ \A i \in 1..Len(t.inputs.vec) : t.inputs.vec[i].kind = "Confirmed"
    /\ \A i \in 1..Len(t.outputs.vec) : t.outputs.vec[i].kind = "Pending"
    /\ SumValues(t.outputs.vec) <= SumValues(t.inputs.vec)
    /\ \A i \in 1..Len(t.inputs.vec) : Unlock(t.inputs.vec[i], unlocking_script) = "Ok"
    /\ VerifyStrict(t.sender, t.hash_id, t.signature)

\* the result (input_total, output_total, input_total - output_total)
VerifyTotals(t) ==
    <<SumValues(t.inputs.vec), SumValues(t.outputs.vec),
      SumValues(t.inputs.vec) - SumValues(t.outputs.vec)>>

C15_WrongSignerUnAuthorized ==
    (/\ txn_last.op = "verify"
     /\ VerifyingKey(signer) # transaction.sender
     /\ transaction.inputs.vec # <<>> /\ transaction.outputs.vec # <<>>
     /\ SumValues(transaction.outputs.vec) <= SumValues(transaction.inputs.vec)
     /\ \A i \in 1..Len(transaction.inputs.vec) :
            Unlock(transaction.inputs.vec[i], txn_last.script) = "Ok")
    => txn_last.result = "UnAuthorized"

\* C15 witness: a transaction of the sender whose outputs were added with the
\* key that owns the input, verified with that owner's script.
C15_Witness ==
    /\ txn_last.op = "verify" /\ txn_last.result = "UnAuthorized"
    /\ VerifyingKey(signer) # transaction.sender
    /\ txn_last.script = UnlockingScript(signer)

C17_NewRejectsZeroOnly ==
    /\ utxo.value > 0
    /\ (utxo_last.op = "new")
       => /\ (utxo_last.result = "InvalidUTXOValue") <=> (utxo_last.value = 0)
          /\ utxo_last.value # 0 =>
                 /\ utxo_last.result = "Ok"
                 /\ utxo = [kind |-> "Pending", value |-> utxo_last.value,
                            index |-> utxo_last.index]

\* C17 witness: UTXO::new(0, index) rejected while a Confirmed UTXO is at hand.
C17_Witness ==
    /\ utxo_last.op = "new" /\ utxo_last.result = "InvalidUTXOValue"
    /\ utxo.kind = "Confirmed"

\* C18: confirm_utxo on a Pending UTXO yields a Confirmed one of the same
\* value and index, confirm_utxo on a Confirmed UTXO fails with ConfirmedUTXO,
\* and no call of confirm_utxo, to_bytes, unlock, add_inputs or verify changes
\* a field of a Confirmed UTXO or makes it Pending; the transaction holds the
\* UTXO as it was given.  (UTXO::new makes another UTXO.)
C18_ConfirmedOnceAndImmutable ==
    [][/\ (utxo.kind = "Confirmed" /\ utxo_last'.op # "new") => utxo' = utxo
       /\ (utxo_last'.op = "confirm_utxo" /\ utxo.kind = "Pending")
              => /\ utxo_last'.result = "Ok"
                 /\ utxo'.kind = "Confirmed"
                 /\ utxo'.value = utxo.value /\ utxo'.index = utxo.index
       /\ (utxo_last'.op = "confirm_utxo" /\ utxo.kind = "Confirmed")
              => utxo_last'.result = "ConfirmedUTXO"
       /\ utxo_last'.op = "transaction" => utxo_last'.held = <<utxo>>]_vars

\* C18 witness: confirm_utxo refused on a Confirmed UTXO.
C18_Witness ==
    /\ utxo_last.op = "confirm_utxo" /\ utxo_last.result = "ConfirmedUTXO"
    /\ utxo.kind = "Confirmed" /\ utxo = utxo_last.pre

\* the positions where a whitespace-separated token of str starts
TokenStarts(str) ==
    {i \in 1..Len(str) :
        ~IsWhitespace(str[i]) /\ (i = 1 \/ IsWhitespace(str[i - 1]))}

\* the token of str that starts at position i
TokenAt(str, i) ==
    SubSeq(str, i,
           CHOOSE j \in i..Len(str) :
               /\ \A m \in i..j : ~IsWhitespace(str[m])
               /\ (j = Len(str) \/ IsWhitespace(str[j + 1])))

\* the script is signature_hex then public_key_hex and nothing else, the key
\* hashes to the owner hash of script_pubkey and the signature is one of that
\* hash under the key
UnlocksWith(self, unlocking_script) ==
    LET starts == TokenStarts(unlocking_script) IN
    /\ Cardinality(starts) = 2
    /\ LET first  == CHOOSE i \in starts : \A j \in starts : i <= j
           second == CHOOSE i \in starts : \A j \in starts : i >= j
           signature  == HexDecode(TokenAt(unlocking_script, first))
           public_key == HexDecode(TokenAt(unlocking_script, second))
       IN /\ signature.ok /\ public_key.ok
          /\ HexEncode(Blake3(public_key.value))
                 = TokenAt(self.script_pubkey, 1)
          /\ Len(public_key.value) = PublicKeyLength
          /\ IsPoint(public_key.value)
          /\ Len(signature.value) = SignatureLength
          /\ VerifyStrict(public_key.value, Blake3(public_key.value),
                          signature.value)

\* C19: for a Confirmed UTXO made by confirm_utxo(owner, ...), whose
\* script_pubkey is the hex of the hash of owner followed by OP_CHECKSIG,
\* unlock(script) returns Ok exactly when the script is two
\* whitespace-separated tokens, signature_hex then public_key_hex, the decoded
\* key hashes to the owner hash and the decoded signature is a valid signature
\* of that hash under the key.
C19_UnlockExactlyTwoTokens ==
    /\ (utxo_last.op = "confirm_utxo" /\ utxo_last.result = "Ok")
           => utxo.script_pubkey =
                  HexEncode(Blake3(utxo_last.owner)) \o Space \o OpCheckSig
    /\ (utxo_last.op = "unlock" /\ utxo.kind = "Confirmed")
           => ((utxo_last.result = "Ok") <=> UnlocksWith(utxo, utxo_last.script))

\* C19 witness: a Confirmed UTXO unlocked by a script written with other
\* whitespace than one space.
C19_Witness ==
    /\ utxo_last.op = "unlock" /\ utxo_last.result = "Ok"
    /\ utxo.kind = "Confirmed"
    /\ utxo_last.script[1] = 9

(***************************************************************************)
(* Properties of the block                                                 *)
(***************************************************************************)
RECURSIVE BytesOfIds(_)
BytesOfIds(txns) ==
    IF txns = <<>> THEN <<>>
    ELSE BytesOfIds(SubSeq(txns, 1, Len(txns) - 1)) \o txns[Len(txns)].hash_id

\* index_le, timestamp_le, the transaction ids, nonce_le, previous_hash and
\* the merkle root
BlockBytes(b) ==
    LeBytes(b.index, 8) \o LeBytes(b.timestamp, 16)
        \o BytesOfIds(b.transactions)
        \o LeBytes(b.nonce, 8) \o b.previous_hash \o b.merkle_root.root[1].hash

\* C20: whenever Block::new returns a block, and after every return of
\* mine_block, hash is calculate_hash() over the current index, timestamp,
\* transaction ids, nonce, previous_hash and merkle root, and the big-endian
\* number read from the first half of hash is at most the greatest such
\* number shifted right by difficulty (is_valid() is true).
C20_MinedBlockValid ==
    (block_last.op \in {"new", "mine_block"} /\ block_last.result = "Ok")
    => /\ block.hash = Blake3(BlockBytes(block))
       /\ block.hash[1] <= PrefixMax \div (2 ^ (block.difficulty % PrefixBits))
       /\ IsValid(block)

\* C20 witness: mine_block returned after moving the nonce of a block whose
\* hash was not its own.
C20_Witness ==
    /\ block_last.op = "mine_block"
    /\ block.nonce > block_last.pre.nonce
    /\ block_last.pre.hash # block.hash

\* C21, as stated: for every block, one read from received bytes included,
\* is_valid() returning true implies that hash is calculate_hash() of the
\* block and that the number read from the first half of hash is within the
\* target of the block's difficulty.
C21_ValidImpliesOwnHash ==
    (block # NoBlock /\ ~ShiftPanics(block.difficulty) /\ IsValid(block))
    => /\ block.hash = Blake3(BlockBytes(block))
       /\ HashPrefix(block.hash) <= Target(block.difficulty)

\* C22, as stated: Block::new called with an empty list of transactions
\* returns the error InvalidBlock: it returns no block and does not panic.
C22_EmptyListInvalidBlock ==
    (block_last.op = "new" /\ block_last.pre # NoBlock
        /\ block_last.pre.transactions = <<>>)
    => /\ block_last.result = "InvalidBlock"
       /\ block = NoBlock

\* C23, as stated: every block returned by Block::new has a difficulty of at
\* least 1 and below the width of the prefix, and no call of Block::new
\* computes the target with a shift by the width or more: a call with such a
\* difficulty neither returns a block nor panics in the shift.
C23_DifficultyInRange ==
    (block_last.op = "new" /\ block_last.pre # NoBlock)
    => /\ (block_last.result = "Ok") => (block.difficulty \in 1..(PrefixBits - 1))
       /\ (block_last.pre.difficulty >= PrefixBits)
              => (block_last.result \notin {"Ok", "panic"})

(***************************************************************************)
(* Properties of the merkle tree                                           *)
(***************************************************************************)
RECURSIVE R(_)
\* the reference root of a sequence of leaves: none for no leaf, the leaf
\* for one, H(l0 || l1) for two, and for more the hash of the roots of
\* the first n/2 leaves and of the other leaves
R(leaves) ==
    LET n == Len(leaves) IN
    CASE n = 0 -> <<>>
      [] n = 1 -> <<leaves[1]>>
      [] n = 2 -> <<Blake3(leaves[1] \o leaves[2])>>
      [] OTHER -> <<Blake3(R([i \in 1..(n \div 2) |-> leaves[i]])[1]
                          \o R([i \in 1..(n - n \div 2) |-> leaves[n \div 2 + i]])[1])>>

\* C24: the root hash of the tree built from a sequence of leaves is the
\* reference root R of the sequence; it is None exactly when the sequence is
\* empty, and a tree built again from the same sequence has the same root.
C24_RootIsReference ==
    /\ [](/\ RootHash(tree) = R(merkle_last.leaves)
          /\ (RootHash(tree) = <<>>) <=> (merkle_last.leaves = <<>>))
    /\ [][(merkle_last'.leaves = merkle_last.leaves)
             => (RootHash(tree') = RootHash(tree))]_vars

\* C24 witness: a tree rebuilt from three leaves, which split into one and
\* two, the first and the last of them equal.
C24_Witness ==
    /\ merkle_last.op = "build_tree"
    /\ Len(merkle_last.leaves) = 3
    /\ merkle_last.leaves[1] = merkle_last.leaves[3]
    /\ merkle_last.leaves[1] # merkle_last.leaves[2]
    /\ RootHash(tree) # <<>>

(***************************************************************************)
(* Properties of requests and responses                                    *)
(***************************************************************************)
\* C25, as stated: from_bytes of the bytes that to_bytes wrote for a Request
\* or a Response made by new succeeds and returns the same command or status
\* and the same payload, whatever the length of the serialized payload.
C25_RoundTrip ==
    (/\ net_last.op = "from_bytes"
     /\ net_last.kind = net_last.pre.kind
     /\ buffer = WriteToBuffer(net_last.pre))
    => /\ net_last.result = "Ok"
       /\ packet.code = net_last.pre.code
       /\ packet.payload = net_last.pre.payload

(***************************************************************************)
(* Properties of the selection for a block                                 *)
(***************************************************************************)
\* the priority order: a higher fee_per_byte first, among equal fees the
\* older timestamp first
HigherPriority(a, b) ==
    \/ a.fee_per_byte > b.fee_per_byte
    \/ a.fee_per_byte = b.fee_per_byte /\ a.timestamp < b.timestamp

\* the entries of the queue before the call whose transaction was returned
ReturnedEntries == {e \in BagToSet(last.pre_queue) : e.txn_hash \in ReturnedHashes}

\* the entries of the queue before the call whose transaction was not
LeftEntries == BagToSet(last.pre_queue) \ ReturnedEntries

RECURSIVE SizesOf(_)
SizesOf(entries) ==
    IF entries = {} THEN 0
    ELSE LET e == CHOOSE x \in entries : TRUE IN e.size + SizesOf(entries \ {e})

\* C26, as stated: get_transactions_for_block is first-fit over the priority
\* order.  It returns the entries that come before the first one, in priority
\* order, whose size added to the running total would reach or exceed
\* max_block_size; no entry that follows that one is returned or removed,
\* even one that would fit.
C26_FirstFit ==
    (last.op = "get")
    => /\ \A e \in ReturnedEntries, s \in LeftEntries : ~HigherPriority(s, e)
       /\ (LeftEntries # {})
             => \E s \in LeftEntries :
                    /\ \A o \in LeftEntries : ~HigherPriority(o, s)
                    /\ SizesOf(ReturnedEntries) + s.size >= last.max_block_size
       /\ \A s \in LeftEntries :
              /\ s.txn_hash \in Keys(transactions)
              /\ CopiesIn(s, priority_queue) = CopiesIn(s, last.pre_queue)

\* C27, as stated: among entries of equal fee_per_byte the one with the older
\* timestamp has the higher priority: get_transactions_for_block returns it
\* before any entry of the same fee_per_byte with a newer timestamp.
C27_OlderFirstAmongEqualFees ==
    (last.op = "get")
    => \A i \in 1..Len(last.block_txns) :
          \A newer \in EntriesOf(last.pre_queue, last.block_txns[i].hash_id) :
             \A older \in BagToSet(last.pre_queue) :
                (older.fee_per_byte = newer.fee_per_byte
                    /\ older.timestamp < newer.timestamp)
                => \E j \in 1..(i - 1) : last.block_txns[j].hash_id = older.txn_hash

(***************************************************************************)
(* Properties of confirm_utxo                                              *)
(***************************************************************************)
\* the four bytes of a u32, the least significant first
IndexLe(index) ==
    <<index % 256, (index \div 256) % 256, (index \div 65536) % 256,
      index \div 16777216>>

\* C28: confirm_utxo(owner, txn_hash, block_height, is_coinbase) on
\* Pending{value, index} returns a Confirmed UTXO with the same value and
\* index, the given txn_hash, block_height and is_coinbase, id the hash of
\* txn_hash followed by index_le, and script_pubkey the hex of the hash of
\* owner followed by a space and OP_CHECKSIG.
C28_ConfirmBuildsUtxo ==
    (utxo_last.op = "confirm_utxo" /\ utxo_last.pre.kind = "Pending")
    => /\ utxo_last.result = "Ok"
       /\ utxo.kind = "Confirmed"
       /\ utxo.value = utxo_last.pre.value
       /\ utxo.index = utxo_last.pre.index
       /\ utxo.txn_hash = utxo_last.txn_hash
       /\ utxo.block_height = utxo_last.block_height
       /\ utxo.is_coinbase = utxo_last.coinbase
       /\ utxo.id = Blake3(utxo_last.txn_hash \o IndexLe(utxo_last.pre.index))
       /\ utxo.script_pubkey
              = HexEncode(Blake3(utxo_last.owner)) \o <<32>> \o OpCheckSig

\* C28 witness: a Pending UTXO of a later index confirmed at height 100 for
\* the second creating transaction.
C28_Witness ==
    /\ utxo_last.op = "confirm_utxo" /\ utxo_last.result = "Ok"
    /\ utxo_last.pre.kind = "Pending" /\ utxo_last.pre.index > 0
    /\ utxo_last.txn_hash # SampleTxnHash
    /\ utxo_last.block_height = 100
    /\ utxo.kind = "Confirmed"

(***************************************************************************)
(* Properties of the mining loop                                           *)
(***************************************************************************)
\* the hash of block b with nonce n in the place of its own
HashAtNonce(b, n) == Blake3(BlockBytes([b EXCEPT !.nonce = n]))

\* the target of block b: the greatest prefix shifted right by difficulty,
\* the amount taken modulo the width of the prefix
TargetOf(b) == PrefixMax \div (2 ^ (b.difficulty % PrefixBits))

\* C29: the mining loop tries the nonces one by one from the nonce the block
\* has at the call (0 in Block::new), each the one before plus 1 modulo the
\* number of nonces, and stops at the first that meets the target: every
\* nonce tried before the final one gives a hash whose prefix is above the
\* target, and between two consecutive hash computations the nonce changes
\* by exactly +1.  The block left is the one mine_block returns for the
\* block it was called on.
C29_NoncesInOrder ==
    /\ [](miner.pc = "done"
          => /\ block.nonce
                   = (miner.start.nonce + miner.hashes - 1) % (MaxNonce + 1)
             /\ \A k \in 0..(miner.hashes - 2) :
                    HashAtNonce(block, (miner.start.nonce + k) % (MaxNonce + 1))[1]
                        > TargetOf(block)
             /\ block.hash = HashAtNonce(block, block.nonce)
             /\ block.hash[1] <= TargetOf(block)
             /\ block \in MineBlock(miner.start))
    /\ [][(miner.pc = "loop" /\ miner'.pc = "loop")
            => (block'.nonce = (block.nonce + 1) % (MaxNonce + 1))]_vars

\* C29 witness: Block::new returned a block after at least three hash
\* computations.
C29_Witness ==
    /\ miner.pc = "done" /\ ~miner.mined
    /\ block_last.op = "new"
    /\ miner.start.nonce = 0
    /\ miner.hashes >= 3

\* C30: mine_block on a block that Block::new or an earlier mine_block
\* returned ends after one hash computation and leaves nonce, hash, index,
\* timestamp, transactions, previous_hash, difficulty and merkle_root
\* unchanged.
C30_MinedBlockUnchanged ==
    (miner.pc = "done" /\ miner.mined)
    => /\ miner.hashes = 1
       /\ block = miner.start

\* C30 witness: a block mined again that Block::new had returned with a
\* nonce above 0.
C30_Witness ==
    /\ miner.pc = "done" /\ miner.mined
    /\ block_last.op = "new"
    /\ block.nonce > 0
    /\ block.hash = HashAtNonce(block, block.nonce)

\* whether some nonce, the other fields of b as they are, gives a hash
\* that meets the target of b
SomeNonceMeets(b) ==
    \E n \in 0..MaxNonce : HashAtNonce(b, n)[1] <= TargetOf(b)

\* C31: a loop of mine_block under way on a block for which some nonce
\* gives a hash that meets the target ends with the break, from whatever
\* nonce it started; a loop under way on a block for which no nonce does
\* is, after every step, a loop under way on such a block: it stays in the
\* loop for ever.
C31_TerminatesIffSomeNonce ==
    /\ (miner.pc = "loop" /\ block.merkle_root.root # <<>>
            /\ SomeNonceMeets(block))
        ~> (miner.pc = "done")
    /\ [][(miner.pc = "loop" /\ block.merkle_root.root # <<>>
            /\ ~SomeNonceMeets(block))
          => (miner'.pc = "loop" /\ block'.merkle_root.root # <<>>
                /\ ~SomeNonceMeets(block'))]_vars

\* C31 witness: a call made at the greatest nonce has ended at a lesser
\* one, after the nonce wrapped around.
C31_Witness ==
    /\ miner.pc = "done"
    /\ miner.start.nonce = MaxNonce
    /\ block.nonce < MaxNonce
    /\ miner.hashes = block.nonce + 2

\* C33: a call of get_transactions_for_block under way returns, on every
\* pool that add_transaction, remove_transaction and
\* get_transactions_for_block have left and for every max_block_size, and
\* each pass that stays in the loop either pops an entry of the queue or
\* raises block_size by at least 1.
C33_SelectionTerminates ==
    /\ (selector.pc = "loop") ~> (selector.pc = "idle")
    /\ [][(selector.pc = "loop" /\ selector'.pc = "loop")
            => \/ BagCardinality(priority_queue')
                    < BagCardinality(priority_queue)
               \/ selector'.block_size >= selector.block_size + 1]_vars

\* C32: once another thread has set the stop flag, the loop of mine_block
\* is left within one further pass: the pass under way when the flag is
\* set may end in the loop, the pass after it does not.
C32_StopWithinOnePass ==
    (stop_flag.set /\ stop_flag.passes >= 2) => miner.pc # "loop"

\* the number of items on the stack when the first OP_CHECKSIG of
\* script_pubkey is reached: the tokens of the unlocking script and the
\* tokens of script_pubkey before it; -1 when script_pubkey has none
ItemsAtCheckSig(script_pubkey, unlocking_script) ==
    LET starts == TokenStarts(script_pubkey)
        ops    == {i \in starts : TokenAt(script_pubkey, i) = OpCheckSig}
    IN
    IF ops = {} THEN -1
    ELSE Cardinality(TokenStarts(unlocking_script))
            + Cardinality({i \in starts : \A o \in ops : i < o})

\* C34: unlock never returns EmptyStack, and when OP_CHECKSIG is reached
\* with fewer than 3 items on the stack, as it is with an unlocking script
\* of fewer than 2 tokens against the script_pubkey of confirm_utxo, unlock
\* fails with InvalidUnlockingScript.
C34_UnderflowIsInvalidScript ==
    (utxo_last.op = "unlock")
    => /\ utxo_last.result # "EmptyStack"
       /\ (/\ utxo.kind = "Confirmed"
           /\ ItemsAtCheckSig(utxo.script_pubkey, utxo_last.script) \in 0..2)
          => utxo_last.result = "InvalidUnlockingScript"

\* C34 witness: OP_CHECKSIG reached with the two items of a script that
\* would unlock the UTXO of confirm_utxo, and refused.
C34_Witness ==
    /\ utxo_last.op = "unlock"
    /\ utxo_last.result = "InvalidUnlockingScript"
    /\ utxo.kind = "Confirmed"
    /\ utxo.script_pubkey = OpCheckSig
    /\ utxo_last.script \in {UnlockingScript(k) : k \in SigningKeys}

\* C35: unlock returns Ok on a Confirmed UTXO, whatever its script_pubkey,
\* only if a token OP_CHECKSIG of script_pubkey was run and its checks, the
\* verification of the signature among them, succeeded.
C35_OkOnlyByCheckSig ==
    (utxo_last.op = "unlock" /\ utxo_last.result = "Ok")
    => LET tokens == SplitWhitespace(utxo.script_pubkey) IN
       \E i \in DOMAIN tokens :
           /\ tokens[i] = OpCheckSig
           /\ LET before == RunScript(SubSeq(tokens, 1, i - 1),
                                      SplitWhitespace(utxo_last.script))
              IN before.ok /\ CheckSig(before.value).ok

\* C36: the totals of verify are the exact sums of the values of the inputs
\* and of the outputs: verify does not return Ok on totals wrapped modulo
\* 2^64, outputs worth more than the inputs do not pass, and the fee is
\* their difference, never below zero.
C36_TotalsAreExactSums ==
    (txn_last.op = "verify" /\ txn_last.result = "Ok")
    => /\ txn_last.totals[1] = SumValues(transaction.inputs.vec)
       /\ txn_last.totals[2] = SumValues(transaction.outputs.vec)
       /\ SumValues(transaction.outputs.vec) <= SumValues(transaction.inputs.vec)
       /\ txn_last.totals[3] = txn_last.totals[1] - txn_last.totals[2]
       /\ txn_last.totals[3] >= 0

====
